---- MODULE Spec2Model ----
(***************************************************************************)
(* Hybrid retrieval pipeline of ai-km-platform: result cache               *)
(* (services/cache.py), retrieval orchestrator (services/rag.py),          *)
(* reranker availability (services/reranker.py) and the document routes    *)
(* (routers/kb.py, services/vector_store.py).                              *)
(***************************************************************************)
EXTENDS Integers, Sequences, FiniteSets, TLC

\* ------------------------------------------------------------------------
\* Bounds of the model
\* ------------------------------------------------------------------------
MaxSeedLen == 3
MaxQueryLen == 5
MaxTopK == 2
MaxTicks == 2
TickSeconds == 1800
MaxCalls == 2
MaxCacheCalls == 2
MaxFaults == 1

\* ------------------------------------------------------------------------
\* Strings: a Python str is a sequence of one-character strings.
\* "U+4E2D" stands for one CJK character, "U+03A3", "U+03C3" and "U+03C2"
\* for the Greek capital sigma, small sigma and small final sigma.
\* ------------------------------------------------------------------------
Letters == {"a", "A", "b", "B"}
Sigmas == {"U+03A3", "U+03C3", "U+03C2"}
Spaces == {" ", "\t"}
Cjk == {"U+4E2D"}
\* the characters of the queries whose spellings are enumerated
KeyChars == {"a", "A", "U+03A3", "U+03C3"} \cup Spaces \cup Cjk

IsSpace(c) == c \in Spaces

\* the characters that have a letter case
Cased(c) == c \in Letters \cup Sigmas

LowerChar(c) ==
    CASE c = "A" -> "a" [] c = "B" -> "b" [] c = "U+03A3" -> "U+03C3" [] OTHER -> c

SwapCase(c) ==
    CASE c = "A" -> "a" [] c = "a" -> "A" [] c = "B" -> "b" [] c = "b" -> "B"
      [] c = "U+03A3" -> "U+03C3" [] c = "U+03C3" -> "U+03A3"
      [] c = "U+03C2" -> "U+03A3" [] OTHER -> c

\* a capital sigma that ends a word: it follows a cased character and no
\* cased character follows it
FinalSigma(s, i) ==
    /\ s[i] = "U+03A3"
    /\ i > 1 /\ Cased(s[i - 1])
    /\ i = Len(s) \/ ~Cased(s[i + 1])

\* str.lower()
Lower(s) ==
    [i \in 1..Len(s) |-> IF FinalSigma(s, i) THEN "U+03C2" ELSE LowerChar(s[i])]

RECURSIVE SplitAcc(_, _, _)
SplitAcc(s, cur, out) ==
    IF s = <<>>
    THEN IF cur = <<>> THEN out ELSE Append(out, cur)
    ELSE IF IsSpace(Head(s))
         THEN SplitAcc(Tail(s), <<>>, IF cur = <<>> THEN out ELSE Append(out, cur))
         ELSE SplitAcc(Tail(s), Append(cur, Head(s)), out)

\* str.split() with no separator: whitespace runs separate, no empty words
Split(s) == SplitAcc(s, <<>>, <<>>)

RECURSIVE Join(_, _)
\* sep.join(words)
Join(sep, words) ==
    IF words = <<>> THEN <<>>
    ELSE IF Len(words) = 1 THEN words[1]
    ELSE words[1] \o sep \o Join(sep, Tail(words))

RECURSIVE LStrip(_)
LStrip(s) == IF s # <<>> /\ IsSpace(Head(s)) THEN LStrip(Tail(s)) ELSE s

RECURSIVE RStrip(_)
RStrip(s) ==
    IF s # <<>> /\ IsSpace(s[Len(s)]) THEN RStrip(SubSeq(s, 1, Len(s) - 1)) ELSE s

\* str.strip()
Strip(s) == RStrip(LStrip(s))

\* All strings over Chars of length at most n
StringsUpTo(n) == UNION {[1..m -> KeyChars] : m \in 0..n}

\* ------------------------------------------------------------------------
\* cache.py: key generation
\* ------------------------------------------------------------------------
NormalizeNoLower(query) == Strip(Join(<<" ">>, Split(query)))

normalize_query(query) == Lower(Strip(Join(<<" ">>, Split(query))))

CharCode(c) ==
    CASE c = "a" -> 1 [] c = "A" -> 2 [] c = "b" -> 3 [] c = "B" -> 4
      [] c = " " -> 5 [] c = "\t" -> 6 [] c = "U+03A3" -> 7 [] c = "U+03C3" -> 8
      [] c = "U+03C2" -> 9 [] OTHER -> 10

HashBase == 11
HashWidth == 2 ^ 27

RECURSIVE Digest(_)
\* md5(...).hexdigest()[:16]: a fixed-width digest of the normalized text,
\* collision-free on the strings of the model (positional code below 11^7)
Digest(s) ==
    IF s = <<>> THEN 1
    ELSE (CharCode(Head(s)) + HashBase * Digest(Tail(s))) % HashWidth

\* f"query:{query_hash}:top_k:{top_k}" and f"{cache_key}:meta"
QueryKey(h, k, isMeta) == [ns |-> "query", hash |-> h, top_k |-> k, meta |-> isMeta]

generate_cache_key(query, top_k) == QueryKey(Digest(normalize_query(query)), top_k, FALSE)

MetaKey(cache_key) == [cache_key EXCEPT !.meta = TRUE]

TopKs == 1..MaxTopK

\* ------------------------------------------------------------------------
\* State
\* ------------------------------------------------------------------------
VARIABLES
    kq0, kq,                    \* key study: a query and a respelling of it
    now,                        \* clock, in seconds
    redisStrings, redisHashes,  \* the shared cache backend (string keys, hash keys)
    redis_client, cache_enabled, cache_stats,   \* cache.py module globals
    cohere_client, reranker_enabled,            \* reranker.py module globals
    cohere_api_key,                             \* settings.cohere_api_key is set
    auth_seen,                  \* an authentication failure was received (history)
    transient_seen,             \* another failure of the scoring service was (history)
    documents, text_index, image_index,         \* vector_store.py
    req,                        \* in-flight search calls
    ret,                        \* the last completed service or route call
    fn,                         \* the last direct call of a function of a service
    lastPut,                    \* per key, the last completed put (history)
    calls,                      \* number of calls started so far
    faults                      \* number of failures of external services so far

keyVars == <<kq0, kq>>
backendVars == <<redisStrings, redisHashes>>
cacheVars == <<redisStrings, redisHashes, redis_client, cache_enabled, cache_stats>>
rerankVars == <<cohere_client, reranker_enabled, cohere_api_key, auth_seen, transient_seen>>
storeVars == <<documents, text_index, image_index>>
vars == <<kq0, kq, now, redisStrings, redisHashes, redis_client, cache_enabled,
          cache_stats, cohere_client, reranker_enabled, cohere_api_key, auth_seen,
          transient_seen, documents, text_index, image_index, req, ret, fn, lastPut,
          calls, faults>>

\* ------------------------------------------------------------------------
\* Optional values: None, or Some(v)
\* ------------------------------------------------------------------------
None == <<>>
Some(v) == <<v>>
IsNone(o) == o = <<>>
Val(o) == o[1]

\* ------------------------------------------------------------------------
\* JSON text of a result list: json.dumps / json.loads (cache.py:103, 141).
\* The text is a sequence of tokens; every cached dict has the eight fields
\* of SearchResult.model_dump().
\* ------------------------------------------------------------------------
Punct(c) == [t |-> "punct", s |-> <<c>>, n |-> 0]
StrTok(s) == [t |-> "str", s |-> s, n |-> 0]
NumTok(n) == [t |-> "num", s |-> <<>>, n |-> n]
NullTok == [t |-> "null", s |-> <<>>, n |-> 0]
OptTok(o) == IF IsNone(o) THEN NullTok ELSE StrTok(Val(o))
TokOpt(tok) == IF tok.t = "null" THEN None ELSE Some(tok.s)

DictTokens(d) ==
    << Punct("{"), StrTok(d.id), StrTok(d.content), StrTok(d.doc_type),
       StrTok(d.document_id), StrTok(d.document_name), NumTok(d.score),
       OptTok(d.image_base64), OptTok(d.file_url), Punct("}") >>

DictWidth == 10

RECURSIVE DumpsItems(_)
DumpsItems(ds) == IF ds = <<>> THEN <<>> ELSE DictTokens(Head(ds)) \o DumpsItems(Tail(ds))

\* json.dumps(results)
Dumps(ds) == <<Punct("[")>> \o DumpsItems(ds) \o <<Punct("]")>>

TokensDict(ts) ==
    [id |-> ts[2].s, content |-> ts[3].s, doc_type |-> ts[4].s,
     document_id |-> ts[5].s, document_name |-> ts[6].s, score |-> ts[7].n,
     image_base64 |-> TokOpt(ts[8]), file_url |-> TokOpt(ts[9])]

RECURSIVE LoadsItems(_)
LoadsItems(ts) ==
    IF Len(ts) < DictWidth THEN <<>>
    ELSE <<TokensDict(SubSeq(ts, 1, DictWidth))>>
         \o LoadsItems(SubSeq(ts, DictWidth + 1, Len(ts)))

\* json.loads(cached)
Loads(text) == LoadsItems(SubSeq(text, 2, Len(text) - 1))

\* ------------------------------------------------------------------------
\* The cache backend: Redis commands used by cache.py
\* ------------------------------------------------------------------------
cache_ttl == 3600

Restrict(f, S) == [x \in S |-> f[x]]

\* keys whose time to live has run out at time t are gone
Expired(e, t) == ~IsNone(e.exp) /\ Val(e.exp) <= t

Unexpired(f, t) == Restrict(f, {x \in DOMAIN f : ~Expired(f[x], t)})

Put(f, x, v) == [y \in DOMAIN f \cup {x} |-> IF y = x THEN v ELSE f[y]]

\* a write that keeps the expiry of a key that is already held (SET ... KEEPTTL)
SetexKeepTtl(strs, key, ttl, text) ==
    Put(strs, key, [val |-> text,
                    exp |-> IF key \in DOMAIN strs THEN strs[key].exp
                            ELSE Some(now + ttl)])

\* a write that leaves a key that is already held as it is (SET ... NX)
SetexIfAbsent(strs, key, ttl, text) ==
    IF key \in DOMAIN strs THEN strs
    ELSE Put(strs, key, [val |-> text, exp |-> Some(now + ttl)])

\* SETEX key ttl value
Setex(strs, key, ttl, text) == Put(strs, key, [val |-> text, exp |-> Some(now + ttl)])

\* HSET key mapping={query, top_k, hit_count: "0"}: the key keeps its time to live
Hset(hashes, mkey, query, top_k) ==
    Put(hashes, mkey,
        [fields |-> {"query", "top_k", "hit_count"}, query |-> query, top_k |-> top_k,
         hit_count |-> 0,
         exp |-> IF mkey \in DOMAIN hashes THEN hashes[mkey].exp ELSE None])

\* EXPIRE key ttl
Expire(hashes, mkey, ttl) ==
    IF mkey \in DOMAIN hashes
    THEN [hashes EXCEPT ![mkey].exp = Some(now + ttl)]
    ELSE hashes

\* HINCRBY key hit_count 1: creates the hash, without a time to live, if absent
Hincrby(hashes, mkey) ==
    IF mkey \in DOMAIN hashes
    THEN [hashes EXCEPT ![mkey].hit_count = @ + 1,
                        ![mkey].fields = @ \cup {"hit_count"}]
    ELSE Put(hashes, mkey,
             [fields |-> {"hit_count"}, query |-> <<>>, top_k |-> 0, hit_count |-> 1,
              exp |-> None])

\* glob match of SCAN on the keys of the model
Glob(pattern, key) ==
    CASE pattern = "*" -> TRUE
      [] pattern = "query:*" -> key.ns = "query"
      [] pattern = "task:*" -> key.ns = "task"
      [] OTHER -> FALSE

\* ------------------------------------------------------------------------
\* cache.py: the cache service.  A cache state cs is the record of the
\* backend and of the module globals; every function returns its result
\* and the cache state it leaves.
\*   up    the backend answers the connection test
\*   fail  0: no command raises; i > 0: the i-th backend step of the call raises
\* ------------------------------------------------------------------------
CS == [strs |-> redisStrings, hashes |-> redisHashes, client |-> redis_client,
       enabled |-> cache_enabled, stats |-> cache_stats]

\* a client that tries the connection again after it failed once
get_redis_client_retry(cs, up) ==
    IF ~cs.client
    THEN IF up
         THEN [client |-> TRUE, cs |-> [cs EXCEPT !.client = TRUE, !.enabled = TRUE]]
         ELSE [client |-> FALSE,
               cs |-> [cs EXCEPT !.enabled = FALSE, !.client = FALSE]]
    ELSE [client |-> TRUE, cs |-> cs]

get_redis_client(cs, up) ==
    IF ~cs.enabled THEN [client |-> FALSE, cs |-> cs]
    ELSE IF ~cs.client
         THEN IF up
              THEN [client |-> TRUE, cs |-> [cs EXCEPT !.client = TRUE]]
              ELSE [client |-> FALSE,
                    cs |-> [cs EXCEPT !.enabled = FALSE, !.client = FALSE]]
         ELSE [client |-> TRUE, cs |-> cs]

\* truth value of a str
Truthy(text) == Len(text) > 0

Hit(cs) == [cs EXCEPT !.stats.hits = @ + 1]
Miss(cs) == [cs EXCEPT !.stats.misses = @ + 1]

\* raised: the call ends in an exception instead of a return value
get_cached_results_empty_is_miss(cs, query, top_k, up, fail) ==
    LET g == get_redis_client(cs, up)
        cache_key == generate_cache_key(query, top_k)
    IN  IF ~g.client THEN [raised |-> FALSE, ret |-> None, cs |-> g.cs]
        ELSE IF cache_key \in DOMAIN g.cs.strs
                /\ Loads(g.cs.strs[cache_key].val) # <<>>
             THEN [raised |-> FALSE, ret |-> Some(Loads(g.cs.strs[cache_key].val)),
                   cs |-> [Hit(g.cs) EXCEPT !.hashes = Hincrby(@, MetaKey(cache_key))]]
             ELSE [raised |-> FALSE, ret |-> None, cs |-> Miss(g.cs)]

get_cached_results(cs, query, top_k, up, fail) ==
    LET g == get_redis_client(cs, up)
        cache_key == generate_cache_key(query, top_k)
    IN  IF ~g.client THEN [raised |-> FALSE, ret |-> None, cs |-> g.cs]
        ELSE IF fail = 1
             THEN [raised |-> FALSE, ret |-> None, cs |-> Miss(g.cs)]
             ELSE IF cache_key \in DOMAIN g.cs.strs /\ Truthy(g.cs.strs[cache_key].val)
                  THEN LET cached == g.cs.strs[cache_key].val
                           counted == Hit(g.cs)
                           bumped == [counted EXCEPT
                                        !.hashes = Hincrby(@, MetaKey(cache_key))]
                       IN  IF fail = 2
                           THEN [raised |-> FALSE, ret |-> None, cs |-> Miss(counted)]
                           ELSE IF fail = 3
                                THEN [raised |-> FALSE, ret |-> None, cs |-> Miss(bumped)]
                                ELSE [raised |-> FALSE, ret |-> Some(Loads(cached)), cs |-> bumped]
                  ELSE [raised |-> FALSE, ret |-> None, cs |-> Miss(g.cs)]

\* ttl 0 stands for "no ttl given"
EffectiveTtl(ttl) == IF ttl # 0 THEN ttl ELSE cache_ttl

\* set_cached_results without its except clause: a failing command raises
set_cached_results_uncaught(cs, query, top_k, results, ttl, up, fail) ==
    LET g == get_redis_client(cs, up)
        ttl_used == EffectiveTtl(ttl)
        cache_key == generate_cache_key(query, top_k)
        meta_key == MetaKey(cache_key)
        s1 == [g.cs EXCEPT !.strs = Setex(@, cache_key, ttl_used, Dumps(results))]
        s2 == [s1 EXCEPT !.hashes = Hset(@, meta_key, query, top_k)]
        s3 == [s2 EXCEPT !.hashes = Expire(@, meta_key, ttl_used)]
    IN  IF ~g.client THEN [raised |-> FALSE, ret |-> FALSE, cs |-> g.cs]
        ELSE CASE fail = 1 -> [raised |-> TRUE, ret |-> FALSE, cs |-> g.cs]
               [] fail = 2 -> [raised |-> TRUE, ret |-> FALSE, cs |-> s1]
               [] fail = 3 -> [raised |-> TRUE, ret |-> FALSE, cs |-> s2]
               [] OTHER -> [raised |-> FALSE, ret |-> TRUE, cs |-> s3]

set_cached_results(cs, query, top_k, results, ttl, up, fail) ==
    LET g == get_redis_client(cs, up)
        ttl_used == EffectiveTtl(ttl)
        cache_key == generate_cache_key(query, top_k)
        meta_key == MetaKey(cache_key)
        s1 == [g.cs EXCEPT !.strs = Setex(@, cache_key, ttl_used, Dumps(results))]
        s2 == [s1 EXCEPT !.hashes = Hset(@, meta_key, query, top_k)]
        s3 == [s2 EXCEPT !.hashes = Expire(@, meta_key, ttl_used)]
    IN  IF ~g.client THEN [raised |-> FALSE, ret |-> FALSE, cs |-> g.cs]
        ELSE CASE fail = 1 -> [raised |-> FALSE, ret |-> FALSE, cs |-> g.cs]
               [] fail = 2 -> [raised |-> FALSE, ret |-> FALSE, cs |-> s1]
               [] fail = 3 -> [raised |-> FALSE, ret |-> FALSE, cs |-> s2]
               [] OTHER -> [raised |-> FALSE, ret |-> TRUE, cs |-> s3]

\* the cached JSON text holds a chunk of the document
MentionsDoc(text, doc) == \E i \in 1..Len(Loads(text)) : Loads(text)[i].document_id = doc

\* the keys of the backend that a SCAN with this pattern returns
Matching(cs, pattern) ==
    {x \in DOMAIN cs.strs \cup DOMAIN cs.hashes : Glob(pattern, x)}

Delete(cs, keys) ==
    [cs EXCEPT !.strs = Restrict(@, DOMAIN @ \ keys),
               !.hashes = Restrict(@, DOMAIN @ \ keys)]

invalidate_cache_by_document(cs, pattern, document_id, up, fail, done) ==
    LET g == get_redis_client(cs, up)
        match == IF pattern # "" THEN pattern ELSE "query:*"
        keys == {x \in Matching(g.cs, match) :
                    \/ pattern # ""
                    \/ document_id = <<>>
                    \/ /\ [x EXCEPT !.meta = FALSE] \in DOMAIN g.cs.strs
                       /\ MentionsDoc(g.cs.strs[[x EXCEPT !.meta = FALSE]].val,
                                      document_id)}
    IN  IF ~g.client THEN [ret |-> 0, cs |-> g.cs]
        ELSE IF fail = 1
             THEN [ret |-> 0, cs |-> Delete(g.cs, keys \cap done)]
             ELSE [ret |-> Cardinality(keys), cs |-> Delete(g.cs, keys)]

\* pattern "" and document_id <<>> stand for None.  When a command raises
\* (fail = 1) the batches deleted before it, `done`, stay deleted.
invalidate_cache(cs, pattern, document_id, up, fail, done) ==
    LET g == get_redis_client(cs, up)
        match == IF pattern # "" THEN pattern
                 ELSE IF document_id # <<>> THEN "query:*"
                 ELSE "query:*"
        keys == Matching(g.cs, match)
    IN  IF ~g.client THEN [ret |-> 0, cs |-> g.cs]
        ELSE IF fail = 1
             THEN [ret |-> 0, cs |-> Delete(g.cs, keys \cap done)]
             ELSE [ret |-> Cardinality(keys), cs |-> Delete(g.cs, keys)]

clear_all_cache(cs, up, fail, done) == invalidate_cache(cs, "*", <<>>, up, fail, done)

\* ------------------------------------------------------------------------
\* The knowledge base of the model: two documents, their chunks
\* ------------------------------------------------------------------------
D1 == <<"d", "1">>
D2 == <<"d", "2">>
Docs == {D1, D2}

TextType == <<"t", "e", "x", "t">>
ImageType == <<"i", "m", "a", "g", "e">>

\* a cached dict, as SearchResult.model_dump() produces it
ResultDict(id, content, doc_type, doc, score, image, url) ==
    [id |-> id, content |-> content, doc_type |-> doc_type, document_id |-> doc,
     document_name |-> <<"f">> \o doc, score |-> score, image_base64 |-> image,
     file_url |-> url]

SampleText == ResultDict(<<"t", "1">>, <<"a", " ", "b">>, TextType, D1, 7, None,
                         Some(<<"/">> \o D1))
SampleImage == ResultDict(<<"i", "2">>, <<"I">>, ImageType, D2, 5, Some(<<"p", "x">>), None)

SampleLists == {<<>>, <<SampleImage, SampleText>>}

Ttls == {0, TickSeconds}
CacheArgs == {<<<<"A", " ">>, 1>>, <<<<"b">>, MaxTopK>>}
Patterns == {"", "query:*", "task:*"}
DocArgs == {<<>>} \cup Docs

\* the arguments of the search calls of the model
QB == <<"B">>
Qb == <<"b", " ">>
Image == <<"p", "x", "q">>

Options(h, rr, c) == [use_hybrid |-> h, use_rerank |-> rr, use_cache |-> c]

SearchArgs(q, img, k, o) ==
    [query |-> q, image |-> img, top_k |-> k, use_hybrid |-> o.use_hybrid,
     use_rerank |-> o.use_rerank, use_cache |-> o.use_cache]

Defaults == Options(TRUE, TRUE, TRUE)

TextInputs ==
    {SearchArgs(QB, None, 1, Defaults),
     SearchArgs(Qb, None, MaxTopK, Defaults),
     SearchArgs(QB, None, MaxTopK, Options(TRUE, FALSE, TRUE)),
     SearchArgs(QB, None, 1, Options(FALSE, TRUE, FALSE))}

ImageInputs ==
    {SearchArgs(<<>>, Some(Image), 1, Defaults),
     SearchArgs(Qb, Some(Image), MaxTopK, Defaults)}

SearchInputs == TextInputs \cup ImageInputs

AllQueries == {a[1] : a \in CacheArgs} \cup {QB, Qb}

AllMainKeys == {generate_cache_key(q, k) : q \in AllQueries, k \in TopKs}

\* text chunks (collection text_chunks) and image chunks (image_chunks)
T1 == <<"t", "1">>
T2 == <<"t", "2">>
T3 == <<"t", "3">>
I1 == <<"i", "1">>
I2 == <<"i", "2">>
TextChunks == {T1, T2, T3}
ImageChunks == {I1, I2}

\* chunk ids are drawn per chunk (uuid4, vector_store.py:189, 226) and are
\* point ids of one collection; nothing relates the ids of the two
\* collections.  IX is an image chunk that drew the id of the text chunk T1
IX == <<"i", "x">>
PointId(c) == IF c = IX THEN T1 ELSE c

ChunkDoc(c) == IF c \in {T1, T2, I1} THEN D1 ELSE D2

ChunksOf(doc, chunks) == {c \in chunks : ChunkDoc(c) = doc}

ChunkNo(c) == CASE c = T1 -> 1 [] c = T2 -> 2 [] c = T3 -> 3 [] c = I1 -> 4 [] OTHER -> 5

\* payload "content" of a text chunk, "description" of an image chunk
ChunkContent(c) ==
    CASE c = T1 -> <<"a", " ", "b">>
      [] c = T2 -> <<"B", "a", "a">>
      [] c = T3 -> <<"b", "b">>
      [] c = I1 -> <<"a">>
      [] OTHER -> <<>>

ChunkImage(c) == <<"p", "x">> \o c

\* the original file of D1 is in the file storage, the one of D2 is not
file_exists(doc) == doc = D1

\* ------------------------------------------------------------------------
\* Sequences
\* ------------------------------------------------------------------------
\* a slice that cuts nothing
TakeAll(s, n) == s

\* s[:n]
Take(s, n) == SubSeq(s, 1, IF n < Len(s) THEN n ELSE Len(s))

RECURSIVE InsertDesc(_, _)
\* insert the pair x after every pair whose key is not smaller
InsertDesc(x, s) ==
    IF s = <<>> THEN <<x>>
    ELSE IF Head(s).k >= x.k
         THEN <<Head(s)>> \o InsertDesc(x, Tail(s))
         ELSE <<x>> \o s

RECURSIVE SortPairs(_)
SortPairs(s) ==
    IF s = <<>> THEN <<>>
    ELSE InsertDesc(s[Len(s)], SortPairs(SubSeq(s, 1, Len(s) - 1)))

\* sorted(s, key=..., reverse=True) where keys[i] is the key of s[i]:
\* a stable sort, largest key first
SortDesc(s, keys) ==
    LET sorted == SortPairs([i \in 1..Len(s) |-> [k |-> keys[i], v |-> s[i]]])
    IN  [i \in 1..Len(s) |-> sorted[i].v]

RECURSIVE SetToSeq(_)
\* the members of a set of chunks, in the order the index stores them
SetToSeq(S) ==
    IF S = {} THEN <<>>
    ELSE LET c == CHOOSE x \in S : \A y \in S : ChunkNo(x) <= ChunkNo(y)
         IN  <<c>> \o SetToSeq(S \ {c})

\* sub in s, for strings
Contains(sub, s) == \E i \in 0..(Len(s) - Len(sub)) : SubSeq(s, i + 1, i + Len(sub)) = sub

RECURSIVE Count(_, _)
\* s.count(sub): occurrences that do not overlap, sub not empty
Count(sub, s) ==
    IF Len(s) < Len(sub) THEN 0
    ELSE IF SubSeq(s, 1, Len(sub)) = sub
         THEN 1 + Count(sub, SubSeq(s, Len(sub) + 1, Len(s)))
         ELSE Count(sub, Tail(s))

Range(s) == {s[i] : i \in 1..Len(s)}

\* ------------------------------------------------------------------------
\* terminology.py: query expansion, on a three-entry terminology table:
\* an upper-case main term, as "MR"; a main term with a two-word synonym;
\* and a main term one of whose synonyms contains the main term of another
\* entry, as a synonym of the disc-brake entry contains the main term of
\* the brake entry
\* ------------------------------------------------------------------------
RAIL_TERMINOLOGY ==
    << [term |-> <<"B">>, synonyms |-> << <<"b", "b">> >>],
       [term |-> <<"a", "a">>, synonyms |-> << <<"a", " ", "b">> >>],
       [term |-> <<"U+4E2D">>, synonyms |-> << <<"U+4E2D", "B">> >>] >>

\* the terms added for one entry of the table
EntryTerms(entry, query) ==
    (IF Contains(entry.term, query) THEN Range(entry.synonyms) ELSE {})
    \cup
    (IF \E i \in 1..Len(entry.synonyms) : Contains(Lower(entry.synonyms[i]), Lower(query))
     THEN {entry.term} \cup Range(entry.synonyms) ELSE {})

ExpandedTerms(query) ==
    UNION {EntryTerms(RAIL_TERMINOLOGY[i], query) : i \in 1..Len(RAIL_TERMINOLOGY)}

RECURSIVE TermSeq(_)
TermSeq(S) ==
    IF S = {} THEN <<>>
    ELSE LET t == CHOOSE x \in S : \A y \in S : Digest(x) <= Digest(y)
         IN  <<t>> \o TermSeq(S \ {t})

\* " ".join(expanded_terms): the query, then the added terms in the set's order
expand_query(query) == Join(<<" ">>, <<query>> \o TermSeq(ExpandedTerms(query) \ {query}))

\* ------------------------------------------------------------------------
\* vector_store.py and the embedding service: nearest-neighbour search.
\* The similarity of a chunk to an embedded text is fixed by the external
\* embedder; the model fixes one such assignment.
\* ------------------------------------------------------------------------
TextScore(text, c) == (((Digest(text) % 5) * ChunkNo(c) + ChunkNo(c)) % 4) + 1

ImageScore(source, c) == (((Digest(source) % 3) + ChunkNo(c)) % 3) + 2

TextPoint(text, c) ==
    [id |-> PointId(c), score |-> TextScore(text, c), document_id |-> ChunkDoc(c),
     document_name |-> <<"f">> \o ChunkDoc(c), content |-> ChunkContent(c),
     bm25_score |-> None, relevance_score |-> None, rerank_fallback |-> FALSE]

ImagePoint(source, c) ==
    [id |-> PointId(c), score |-> ImageScore(source, c), document_id |-> ChunkDoc(c),
     document_name |-> <<"f">> \o ChunkDoc(c), description |-> ChunkContent(c),
     image_base64 |-> ChunkImage(c)]

Scores(points) == [i \in 1..Len(points) |-> points[i].score]

\* search_text(embed_text(text), top_k) on the text collection `index`
search_text(index, text, top_k) ==
    LET points == [i \in 1..Cardinality(index) |-> TextPoint(text, SetToSeq(index)[i])]
    IN  Take(SortDesc(points, Scores(points)), top_k)

\* search_images(embedding of source, top_k) on the image collection `index`
search_images(index, source, top_k) ==
    LET points == [i \in 1..Cardinality(index) |-> ImagePoint(source, SetToSeq(index)[i])]
    IN  Take(SortDesc(points, Scores(points)), top_k)

\* ------------------------------------------------------------------------
\* rag.py: lexical score and rank fusion
\* ------------------------------------------------------------------------
\* count / (count + 1) * len(term), in units of 1/Bm25Scale (exact for count <= 5)
Bm25Scale == 60

RECURSIVE SumTerms(_, _)
SumTerms(terms, doc_lower) ==
    IF terms = {} THEN 0
    ELSE LET term == CHOOSE t \in terms : TRUE
             count == Count(term, doc_lower)
         IN  (IF count > 0 THEN ((Bm25Scale * count) \div (count + 1)) * Len(term) ELSE 0)
             + SumTerms(terms \ {term}, doc_lower)

\* a score that compares the letter case
bm25_score_cased(query, document) == SumTerms(Range(Split(query)), document)

bm25_score(query, document) == SumTerms(Range(Split(Lower(query))), Lower(document))

RrfK == 60

\* the longest list the model hands to the fusion
MaxListLen == 3

RECURSIVE Product(_, _)
\* (k + 1) * ... * (k + n)
Product(k, n) == IF n = 0 THEN 1 ELSE (k + n) * Product(k, n - 1)

\* 1 / (k + rank + 1) in units of 1/RrfScale(k), exact for the ranks below
\* MaxListLen
RrfScale(k) == Product(k, MaxListLen)

\* a weight that forgets the rank
RrfWeightFlat(k, rank) == RrfScale(k) \div (k + 1)

\* a weight that forgets the constant
RrfWeightNoK(k, rank) == RrfScale(k) \div (rank + 1)

RrfWeight(k, rank) == RrfScale(k) \div (k + rank + 1)

RECURSIVE DedupeLast(_)
\* the ids of a list in the order of their last occurrence
DedupeLast(ids) ==
    IF ids = <<>> THEN <<>>
    ELSE LET back == DedupeLast(Tail(ids))
         IN  IF Head(ids) \in Range(back) THEN back ELSE <<Head(ids)>> \o back

RECURSIVE Dedupe(_)
\* the ids of a list in the order of their first occurrence
Dedupe(ids) ==
    IF ids = <<>> THEN <<>>
    ELSE LET front == Dedupe(SubSeq(ids, 1, Len(ids) - 1))
             x == ids[Len(ids)]
         IN  IF x \in Range(front) THEN front ELSE Append(front, x)

Ids(list) == [i \in 1..Len(list) |-> list[i].id]

RECURSIVE RankSum(_, _, _)
\* the sum of the weights of the positions of list that hold id
RankSum(id, list, k) ==
    IF list = <<>> THEN 0
    ELSE RankSum(id, SubSeq(list, 1, Len(list) - 1), k)
         + (IF list[Len(list)].id = id THEN RrfWeight(k, Len(list) - 1) ELSE 0)

\* a results_map that prefers the keyword list
ResultOfKeywordFirst(id, vector_results, keyword_results) ==
    IF id \in {keyword_results[i].id : i \in 1..Len(keyword_results)}
    THEN keyword_results[CHOOSE i \in 1..Len(keyword_results) : keyword_results[i].id = id]
    ELSE vector_results[CHOOSE i \in 1..Len(vector_results) : vector_results[i].id = id]

\* results_map: the last dict of the vector list for an id of the vector list,
\* else the first dict of the keyword list
ResultOf(id, vector_results, keyword_results) ==
    IF id \in Range(Ids(vector_results))
    THEN vector_results[CHOOSE i \in 1..Len(vector_results) :
            /\ vector_results[i].id = id
            /\ \A j \in (i + 1)..Len(vector_results) : vector_results[j].id # id]
    ELSE keyword_results[CHOOSE i \in 1..Len(keyword_results) :
            /\ keyword_results[i].id = id
            /\ \A j \in 1..(i - 1) : keyword_results[j].id # id]

reciprocal_rank_fusion(vector_results, keyword_results, top_k, k) ==
    LET ids == Dedupe(Ids(vector_results) \o Ids(keyword_results))
        scores == [i \in 1..Len(ids) |->
                     RankSum(ids[i], vector_results, k) + RankSum(ids[i], keyword_results, k)]
        sorted_ids == SortDesc(ids, scores)
    IN  [i \in 1..Len(Take(sorted_ids, top_k)) |->
            ResultOf(sorted_ids[i], vector_results, keyword_results)]

rerank_top_n == 10
KeywordPool == 100

\* hybrid_search up to the fusion (rag.py:137-161)
FetchK(top_k, use_rerank) == IF use_rerank THEN top_k * 4 ELSE top_k * 2

\* rag.py:143-146: the vector list
VectorResults(index, query, top_k, use_rerank) ==
    search_text(index, expand_query(query), FetchK(top_k, use_rerank))

\* a lexical list sorted in ascending order and then turned round, which puts
\* chunks of equal score in the reverse of their order in the pool
KeywordResultsTurned(index, query, top_k, use_rerank) ==
    LET expanded_query == expand_query(query)
        pool == search_text(index, expanded_query, KeywordPool)
        all_chunks == [i \in 1..Len(pool) |->
                         [pool[i] EXCEPT !.bm25_score =
                             Some(bm25_score(expanded_query, pool[i].content))]]
        ascending == SortDesc(all_chunks, [i \in 1..Len(all_chunks) |->
                                             0 - Val(all_chunks[i].bm25_score)])
    IN  Take([i \in 1..Len(ascending) |-> ascending[Len(ascending) + 1 - i]],
             FetchK(top_k, use_rerank))

\* rag.py:149-156: the lexical list
KeywordResults(index, query, top_k, use_rerank) ==
    LET expanded_query == expand_query(query)
        pool == search_text(index, expanded_query, KeywordPool)
        all_chunks == [i \in 1..Len(pool) |->
                         [pool[i] EXCEPT !.bm25_score =
                             Some(bm25_score(expanded_query, pool[i].content))]]
    IN  Take(SortDesc(all_chunks, [i \in 1..Len(all_chunks) |->
                                      Val(all_chunks[i].bm25_score)]),
             FetchK(top_k, use_rerank))

FusedResults(index, query, top_k, use_rerank) ==
    LET vector_results == VectorResults(index, query, top_k, use_rerank)
        keyword_results == KeywordResults(index, query, top_k, use_rerank)
        fusion_top_k == IF use_rerank THEN rerank_top_n * 2 ELSE top_k
    IN  reciprocal_rank_fusion(vector_results, keyword_results, fusion_top_k, RrfK)

\* ------------------------------------------------------------------------
\* reranker.py
\* ------------------------------------------------------------------------
RS == [client |-> cohere_client, enabled |-> reranker_enabled]

\* init_ok: cohere.Client(api_key=...) does not raise
get_cohere_client_reenabling(rs, api_key, init_ok) ==
    IF rs.client THEN [client |-> TRUE, rs |-> [rs EXCEPT !.enabled = TRUE]]
    ELSE IF ~api_key \/ ~init_ok
         THEN [client |-> FALSE, rs |-> [rs EXCEPT !.enabled = FALSE]]
         ELSE [client |-> TRUE, rs |-> [client |-> TRUE, enabled |-> TRUE]]

\* a client built whether or not a key is configured
get_cohere_client_keyless(rs, api_key, init_ok) ==
    IF ~rs.enabled THEN [client |-> FALSE, rs |-> rs]
    ELSE IF ~rs.client
         THEN IF ~init_ok
              THEN [client |-> FALSE, rs |-> [rs EXCEPT !.enabled = FALSE]]
              ELSE [client |-> TRUE, rs |-> [rs EXCEPT !.client = TRUE]]
         ELSE [client |-> TRUE, rs |-> rs]

get_cohere_client(rs, api_key, init_ok) ==
    IF ~rs.enabled THEN [client |-> FALSE, rs |-> rs]
    ELSE IF ~rs.client
         THEN IF ~api_key THEN [client |-> FALSE, rs |-> [rs EXCEPT !.enabled = FALSE]]
              ELSE IF ~init_ok
                   THEN [client |-> FALSE, rs |-> [rs EXCEPT !.enabled = FALSE]]
                   ELSE [client |-> TRUE, rs |-> [rs EXCEPT !.client = TRUE]]
         ELSE [client |-> TRUE, rs |-> rs]

\* the outcomes of client.rerank but an answer: the two errors rerank names,
\* a timeout of the transport, any other exception
RerankErrors == {"rate_limit", "unauthorized", "timeout", "error"}

\* the relevance score the service gives to the result at position pos
Relevance(pos) == 100 - pos

\* the reranked list built from response.results (reranker.py:106-114);
\* order is the sequence of result.index values
Reranked(docs, order) ==
    [i \in 1..Len(order) |->
        [docs[order[i]] EXCEPT !.relevance_score = Some(Relevance(i))]]

fallback_with_warning(docs) ==
    [i \in 1..Len(docs) |->
        [docs[i] EXCEPT !.rerank_fallback = TRUE,
                             !.relevance_score = Some(docs[i].score)]]

\* the flag after an except clause of rerank that never clears it
FlagAfterKeeping(enabled, outcome) == enabled

\* the flag if every except clause of rerank cleared it
FlagAfterClearing(enabled, outcome) == FALSE

\* the flag after an except clause of rerank has run (reranker.py:116-128)
FlagAfter(enabled, outcome) == IF outcome = "unauthorized" THEN FALSE ELSE enabled

\* the orders the service may return for n documents and top_n requested:
\* min(top_n, n) distinct indices
RECURSIVE Orders(_, _)
Orders(n, m) ==
    IF m = 0 THEN {<<>>}
    ELSE {Append(o, i) : o \in Orders(n, m - 1), i \in 1..n} \cap
         {o \in [1..m -> 1..n] : \A a, b \in 1..m : a # b => o[a] # o[b]}

Min(a, b) == IF a < b THEN a ELSE b

\* documents[doc_index] raises IndexError for an index beyond the list
InRange(order, n) == \A i \in 1..Len(order) : order[i] \in 1..n

\* the case of the answer: "ok", an error of RerankErrors, or "bad_index" for
\* an answer whose result.index values do not all name a document
Outcome(outcome, order, n) ==
    IF outcome = "ok" /\ ~InRange(order, n) THEN "bad_index" ELSE outcome

\* the two errors rerank names, and the others
Transient == {"rate_limit", "timeout", "error", "bad_index"}

\* a rerank whose last except clause is missing: what is neither a rate limit
\* nor an authentication failure leaves the function as an exception
rerank_answer_uncaught(rs, docs, outcome, order) ==
    LET kind == Outcome(outcome, order, Len(docs))
    IN  IF kind = "ok"
        THEN [raised |-> FALSE, list |-> Reranked(docs, order), rs |-> rs,
              after |-> docs]
        ELSE [raised |-> kind \in {"timeout", "error", "bad_index"},
              list |-> fallback_with_warning(docs),
              rs |-> [rs EXCEPT !.enabled = FlagAfter(rs.enabled, kind)],
              after |-> fallback_with_warning(docs)]

\* reranker.py:90-128: the try statement of rerank, from the answer on.
\* after: the list that was passed in, as the caller finds it after the
\* call.  The answer is built from copies of the dicts (reranker.py:108);
\* the fallback writes into the dicts of the list itself and returns that
\* list (reranker.py:131-138)
rerank_answer(rs, docs, outcome, order) ==
    LET kind == Outcome(outcome, order, Len(docs))
    IN  IF kind = "ok"
        THEN [raised |-> FALSE, list |-> Reranked(docs, order), rs |-> rs,
              after |-> docs]
        ELSE [raised |-> FALSE, list |-> fallback_with_warning(docs),
              rs |-> [rs EXCEPT !.enabled = FlagAfter(rs.enabled, kind)],
              after |-> fallback_with_warning(docs)]

\* top_n = min(top_n or settings.rerank_top_n, len(documents)), the number of
\* results asked of the service; top_n = 0 stands for None and for 0
RequestedTopN(top_n, n) == Min(IF top_n = 0 THEN rerank_top_n ELSE top_n, n)

\* reranker.py:48-128: rerank(query, documents, top_n).  called: the request
\* was sent to the service
rerank(rs, api_key, init_ok, docs, top_n, outcome, order) ==
    IF docs = <<>>
    THEN [raised |-> FALSE, list |-> <<>>, rs |-> rs, called |-> FALSE, after |-> docs]
    ELSE LET got == get_cohere_client(rs, api_key, init_ok)
             a == rerank_answer(got.rs, docs, outcome, order)
         IN  IF ~got.client
             THEN [raised |-> FALSE, list |-> docs, rs |-> got.rs, called |-> FALSE,
                   after |-> docs]
             ELSE [raised |-> a.raised, list |-> a.list, rs |-> a.rs, called |-> TRUE,
                   after |-> a.after]

\* ------------------------------------------------------------------------
\* rag.py: SearchResult records
\* ------------------------------------------------------------------------
FileUrl(doc) == IF file_exists(doc) THEN Some(<<"/">> \o doc) ELSE None

TextResult(r) ==
    ResultDict(r.id, r.content, TextType, r.document_id, r.score, None,
               FileUrl(r.document_id))

ImageResult(r) ==
    ResultDict(r.id, r.description, ImageType, r.document_id, r.score,
               Some(r.image_base64), FileUrl(r.document_id))

MapText(list) == [i \in 1..Len(list) |-> TextResult(list[i])]
MapImage(list) == [i \in 1..Len(list) |-> ImageResult(list[i])]

\* r.model_dump() for every result, and SearchResult(**r) for every cached dict
ModelDump(results) ==
    [i \in 1..Len(results) |->
        [id |-> results[i].id, content |-> results[i].content,
         doc_type |-> results[i].doc_type, document_id |-> results[i].document_id,
         document_name |-> results[i].document_name, score |-> results[i].score,
         image_base64 |-> results[i].image_base64, file_url |-> results[i].file_url]]

FromDicts(dicts) == ModelDump(dicts)

RECURSIVE AppendNew(_, _)
\* append the results whose id is not yet in the list (rag.py:264-281)
AppendNew(results, more) ==
    IF more = <<>> THEN results
    ELSE AppendNew(IF Head(more).id \in Range(Ids(results))
                   THEN results ELSE Append(results, Head(more)),
                   Tail(more))

\* ------------------------------------------------------------------------
\* Initial state: a fresh process, an empty backend; the knowledge base is
\* empty or holds both documents
\* ------------------------------------------------------------------------
EmptyMap == [x \in {} |-> x]

\* a search call: its arguments, its position, its local variables, and the
\* history the properties read (steps taken, cache entry met by the lookup,
\* outcome of the rerank request, failure of the text channel)
IdleReq ==
    [pc |-> "idle", query |-> <<>>, image |-> None, top_k |-> 0,
     use_hybrid |-> TRUE, use_rerank |-> TRUE, use_cache |-> TRUE,
     results |-> <<>>, fused |-> <<>>, out |-> None, steps |-> {},
     entry |-> None, held |-> FALSE, cfault |-> {}, after_auth |-> FALSE,
     after_transient |-> FALSE, outcome |-> "", tfault |-> FALSE]

ReqIds == {1, 2}

NoKey == QueryKey(0, 0, FALSE)

Ret(op, key, val, ok, n, clean, pattern, doc, unrelated) ==
    [op |-> op, key |-> key, val |-> val, ok |-> ok, n |-> n, at |-> now,
     clean |-> clean, pattern |-> pattern, doc |-> doc, unrelated |-> unrelated]

InitBase ==
    /\ now = 0
    /\ redisStrings = EmptyMap
    /\ redisHashes = EmptyMap
    /\ redis_client = FALSE
    /\ cache_enabled = TRUE
    /\ cache_stats = [hits |-> 0, misses |-> 0]
    /\ cohere_client = FALSE
    /\ reranker_enabled = TRUE
    /\ cohere_api_key \in BOOLEAN
    /\ auth_seen = FALSE
    /\ transient_seen = FALSE
    /\ documents \in {{}, Docs}
    /\ text_index = UNION {ChunksOf(doc, TextChunks) : doc \in documents}
    /\ image_index = UNION {ChunksOf(doc, ImageChunks) : doc \in documents}
    /\ req = [r \in ReqIds |-> IdleReq]
    /\ ret = Ret("none", NoKey, None, FALSE, 0, FALSE, "", <<>>, 0)
    /\ lastPut = [x \in AllMainKeys |-> None]
    /\ calls = 0
    /\ faults = 0

InitRest ==
    /\ InitBase
    /\ fn = [op |-> "none"]

Init ==
    /\ kq0 = <<>>
    /\ kq = <<>>
    /\ InitRest

ApplyCS(cs) ==
    /\ redisStrings' = cs.strs
    /\ redisHashes' = cs.hashes
    /\ redis_client' = cs.client
    /\ cache_enabled' = cs.enabled
    /\ cache_stats' = cs.stats

\* the connection test is only made while no client exists
UpChoices == IF cache_enabled /\ ~redis_client THEN BOOLEAN ELSE {TRUE}

\* time passes; keys whose time to live ran out disappear.  Time is observed
\* through the expiry of keys only, so the clock starts with the first key
Tick ==
    /\ now < MaxTicks * TickSeconds
    /\ DOMAIN redisStrings \cup DOMAIN redisHashes # {}
    /\ \A r \in ReqIds : req[r].pc = "idle"
    /\ now' = now + TickSeconds
    /\ redisStrings' = Unexpired(redisStrings, now')
    /\ redisHashes' = Unexpired(redisHashes, now')
    /\ UNCHANGED <<keyVars, fn, redis_client, cache_enabled, cache_stats, rerankVars,
                   storeVars, req, ret, lastPut, calls, faults>>

\* ------------------------------------------------------------------------
\* The cache service called directly
\* ------------------------------------------------------------------------
CacheGet(q, k, up, fail) ==
    /\ calls < MaxCacheCalls
    /\ LET r == get_cached_results(CS, q, k, up, fail)
       IN  /\ ApplyCS(r.cs)
           /\ ret' = Ret("get", generate_cache_key(q, k), r.ret, ~IsNone(r.ret), 0,
                         fail = 0 /\ get_redis_client(CS, up).client, "", <<>>, 0)
    /\ calls' = calls + 1
    /\ UNCHANGED faults
    /\ UNCHANGED <<keyVars, fn, now, rerankVars, storeVars, req, lastPut>>

\* fn keeps the ttl argument of the put (0: none given) and the entry the
\* key held when the put arrived
CachePut(q, k, results, ttl, up, fail) ==
    /\ calls < MaxCacheCalls
    /\ LET r == set_cached_results(CS, q, k, results, ttl, up, fail)
           key == generate_cache_key(q, k)
           reached == get_redis_client(CS, up).client
       IN  /\ ApplyCS(r.cs)
           /\ ret' = Ret("put", key, Some(results), r.ret, 0, fail = 0 /\ reached,
                         "", <<>>, 0)
           /\ fn' = [op |-> "put", ttl |-> ttl,
                     met |-> IF key \in DOMAIN redisStrings
                             THEN Some(redisStrings[key]) ELSE None]
           /\ lastPut' =
                IF ~reached THEN lastPut
                ELSE [lastPut EXCEPT ![key] =
                        IF fail = 0
                        THEN Some([results |-> results,
                                   exp |-> now + (IF ttl = 0 THEN cache_ttl ELSE ttl)])
                        ELSE None]
    /\ calls' = calls + 1
    /\ UNCHANGED faults
    /\ UNCHANGED <<keyVars, now, rerankVars, storeVars, req>>

Unrelated(cs, doc) ==
    Cardinality({x \in DOMAIN cs.strs : x.ns = "query" /\ ~MentionsDoc(cs.strs[x].val, doc)})

ForgetPuts(cs, pattern, up) ==
    IF get_redis_client(cs, up).client
    THEN [x \in AllMainKeys |->
            IF Glob(IF pattern = "" THEN "query:*" ELSE pattern, x)
            THEN None ELSE lastPut[x]]
    ELSE lastPut

CacheInvalidate(pattern, doc, up, fail, done) ==
    /\ calls < MaxCacheCalls
    /\ LET r == invalidate_cache(CS, pattern, doc, up, fail, done)
       IN  /\ ApplyCS(r.cs)
           /\ ret' = Ret("invalidate", NoKey, None, TRUE, r.ret,
                         fail = 0 /\ get_redis_client(CS, up).client, pattern, doc,
                         Unrelated(CS, doc))
    /\ lastPut' = ForgetPuts(CS, pattern, up)
    /\ calls' = calls + 1
    /\ UNCHANGED faults
    /\ UNCHANGED <<keyVars, fn, now, rerankVars, storeVars, req>>

CacheClearAll(up, fail, done) ==
    /\ calls < MaxCacheCalls
    /\ LET r == clear_all_cache(CS, up, fail, done)
       IN  /\ ApplyCS(r.cs)
           /\ ret' = Ret("clear_all", NoKey, None, TRUE, r.ret,
                         fail = 0 /\ get_redis_client(CS, up).client, "*", <<>>, 0)
    /\ lastPut' = ForgetPuts(CS, "*", up)
    /\ calls' = calls + 1
    /\ UNCHANGED faults
    /\ UNCHANGED <<keyVars, fn, now, rerankVars, storeVars, req>>

BackendKeys == DOMAIN redisStrings \cup DOMAIN redisHashes

NextCache ==
    \/ Tick
    \/ \E a \in CacheArgs, up \in UpChoices, fail \in 0..3 :
          CacheGet(a[1], a[2], up, fail)
    \/ \E a \in CacheArgs, results \in SampleLists, ttl \in Ttls,
          up \in UpChoices, fail \in 0..3 :
          CachePut(a[1], a[2], results, ttl, up, fail)
    \/ \E pattern \in Patterns, doc \in DocArgs, up \in UpChoices, fail \in 0..1,
          done \in SUBSET BackendKeys :
          CacheInvalidate(pattern, doc, up, fail, IF fail = 0 THEN {} ELSE done)
    \/ \E up \in UpChoices, fail \in 0..1, done \in SUBSET BackendKeys :
          CacheClearAll(up, fail, IF fail = 0 THEN {} ELSE done)

InitCache == Init /\ cohere_api_key /\ documents = {}

SpecCache == InitCache /\ [][NextCache]_vars

\* ------------------------------------------------------------------------
\* Properties of the cache service (SpecCache)
\* ------------------------------------------------------------------------

\* C3: cache round trip.  A get that reaches the backend and meets no backend
\* error, on a key whose last operation was a completed put(q, k, R), returns
\* R if issued before that put's time to live has elapsed, and None otherwise.
C3_RoundTrip ==
    (ret.op = "get" /\ ret.clean /\ ~IsNone(lastPut[ret.key]))
        => IF ret.at < Val(lastPut[ret.key]).exp
           THEN ret.val = Some(Val(lastPut[ret.key]).results)
           ELSE IsNone(ret.val)

\* a get inside the time to live that returned a stored empty list
C3_Witness ==
    /\ ret.op = "get" /\ ret.clean
    /\ ~IsNone(lastPut[ret.key])
    /\ ret.at < Val(lastPut[ret.key]).exp
    /\ ret.at > 0
    /\ ret.val = Some(<<>>)

\* C6: an invalidation by document id, or one without arguments, that meets
\* no backend error leaves no query-result key and no metadata key.
C6_DocumentInvalidationClearsAll ==
    (ret.op = "invalidate" /\ ret.clean /\ ret.pattern = "")
        => \A x \in BackendKeys : x.ns # "query"

\* an invalidation for a document that removed an entry holding none of its chunks
C6_Witness ==
    /\ ret.op = "invalidate" /\ ret.clean /\ ret.pattern = ""
    /\ ret.doc # <<>>
    /\ ret.unrelated > 0
    /\ ret.n >= 2

\* ------------------------------------------------------------------------
\* Cache keys of respelled queries (SpecKey): kq0 is a query, kq a spelling
\* of it obtained by changing letter case and the length of whitespace runs
\* ------------------------------------------------------------------------
InitKey ==
    /\ kq0 \in StringsUpTo(MaxSeedLen)
    /\ kq = kq0
    /\ InitRest
    /\ cohere_api_key
    /\ documents = {}

RemoveAt(s, i) == SubSeq(s, 1, i - 1) \o SubSeq(s, i + 1, Len(s))
InsertAfter(s, i, c) == SubSeq(s, 1, i) \o <<c>> \o SubSeq(s, i + 1, Len(s))

KeyUnchanged == UNCHANGED <<kq0, fn, now, cacheVars, rerankVars, storeVars, req, ret,
                            lastPut, calls, faults>>

\* change the case of one letter
KeyToggleCase(i) ==
    /\ i \in 1..Len(kq)
    /\ Cased(kq[i])
    /\ kq' = [kq EXCEPT ![i] = SwapCase(@)]
    /\ KeyUnchanged

\* add leading or trailing whitespace
KeyPad(front, w) ==
    /\ Len(kq) < MaxQueryLen
    /\ kq' = IF front THEN <<w>> \o kq ELSE Append(kq, w)
    /\ KeyUnchanged

\* lengthen a whitespace run
KeyStretch(i, w) ==
    /\ Len(kq) < MaxQueryLen
    /\ i \in 1..Len(kq)
    /\ IsSpace(kq[i])
    /\ kq' = InsertAfter(kq, i, w)
    /\ KeyUnchanged

\* shorten a whitespace run; an internal run keeps one character
KeyShrink(i) ==
    /\ i \in 1..Len(kq)
    /\ IsSpace(kq[i])
    /\ \/ LStrip(SubSeq(kq, 1, i)) = <<>>
       \/ RStrip(SubSeq(kq, i, Len(kq))) = <<>>
       \/ (i > 1 /\ IsSpace(kq[i - 1]))
       \/ (i < Len(kq) /\ IsSpace(kq[i + 1]))
    /\ kq' = RemoveAt(kq, i)
    /\ KeyUnchanged

NextKey ==
    \/ \E i \in 1..MaxQueryLen : KeyToggleCase(i)
    \/ \E front \in BOOLEAN, w \in Spaces : KeyPad(front, w)
    \/ \E i \in 1..MaxQueryLen, w \in Spaces : KeyStretch(i, w)
    \/ \E i \in 1..MaxQueryLen : KeyShrink(i)

SpecKey == InitKey /\ [][NextKey]_vars

\* C4: spellings of a query that differ only in letter case, in leading or
\* trailing whitespace or in the length of whitespace runs have the same key
\* for every top_k; normalize is idempotent; distinct top_k give distinct keys.
C4_KeyNormalization ==
    /\ \A k \in TopKs : generate_cache_key(kq, k) = generate_cache_key(kq0, k)
    /\ normalize_query(normalize_query(kq)) = normalize_query(kq)
    /\ \A k1, k2 \in TopKs :
          k1 # k2 => generate_cache_key(kq, k1) # generate_cache_key(kq, k2)

\* ------------------------------------------------------------------------
\* rag.py: search, in the steps between its external calls
\* ------------------------------------------------------------------------
ApplyRS(rs) ==
    /\ cohere_client' = rs.client
    /\ reranker_enabled' = rs.enabled

\* a search that caches whatever it is given, image or not
CacheableIgnoringImage(c) == c.query # <<>> /\ c.use_cache

\* "query and use_cache and not image_base64" (rag.py:194, 290)
Cacheable(c) == c.query # <<>> /\ c.use_cache /\ IsNone(c.image)

\* the entry the backend holds for the call's key, as the lookup meets it
EntryMet(c) ==
    LET key == generate_cache_key(c.query, c.top_k)
    IN  IF key \in DOMAIN redisStrings
        THEN Some([results |-> FromDicts(Loads(redisStrings[key].val)),
                   hit_count |-> IF MetaKey(key) \in DOMAIN redisHashes
                                 THEN redisHashes[MetaKey(key)].hit_count ELSE 0])
        ELSE None

\* failures of external services: the cache backend is down (~up), a cache
\* command raises (fail # 0), another service raises (~ok), the scoring
\* service fails or answers with a malformed index
Fault(ok) == IF ok THEN 0 ELSE 1

CacheFaults(up, fail) == Fault(up) + Fault(fail = 0)

Reaches(up) == get_redis_client(CS, up).client

\* the commands of a lookup that can raise: GET always, HINCRBY and the
\* parsing only when GET returned a text
GetFailChoices(query, top_k, up) ==
    {0} \cup (IF Reaches(up) THEN {1} ELSE {})
        \cup (IF Reaches(up) /\ generate_cache_key(query, top_k) \in DOMAIN redisStrings
              THEN {2, 3} ELSE {})

PutFailChoices(up) == IF Reaches(up) THEN 0..3 ELSE {0}

ScanFailChoices(up) == IF Reaches(up) THEN 0..1 ELSE {0}

Spend(n) ==
    /\ faults + n <= MaxFaults
    /\ faults' = faults + n

NoRet == Ret("search", NoKey, None, FALSE, 0, FALSE, "", <<>>, 0)

\* rag.py:190-202: the call arrives and looks its query up in the cache
SearchStart(r, in, up, fail) ==
    /\ req[r].pc = "idle"
    /\ calls < MaxCalls
    /\ calls' = calls + 1
    /\ ret' = NoRet
    /\ LET c == [IdleReq EXCEPT !.query = in.query, !.image = in.image,
                                !.top_k = in.top_k, !.use_hybrid = in.use_hybrid,
                                !.use_rerank = in.use_rerank,
                                !.use_cache = in.use_cache,
                                !.after_auth = auth_seen,
                                !.after_transient = transient_seen]
       IN  IF Cacheable(c)
           THEN LET g == get_cached_results(CS, c.query, c.top_k, up, fail)
                    met == IF fail = 0 /\ Reaches(up) THEN EntryMet(c) ELSE None
                    looked == [c EXCEPT
                                 !.steps = {"cache_get"},
                                 !.entry = met,
                                 !.held = ~IsNone(EntryMet(c)),
                                 !.cfault = IF CacheFaults(up, fail) > 0
                                            THEN {"get"} ELSE {}]
                IN  /\ fail \in GetFailChoices(c.query, c.top_k, up)
                    /\ Spend(CacheFaults(up, fail))
                    /\ ApplyCS(g.cs)
                    /\ IF g.raised
                       THEN req' = [req EXCEPT ![r] =
                                      [looked EXCEPT !.pc = "error",
                                                     !.steps = @ \cup {"cache_raised"}]]
                       ELSE IF ~IsNone(g.ret) /\ Val(g.ret) # <<>>
                       THEN req' = [req EXCEPT ![r] =
                                      [looked EXCEPT !.pc = "done",
                                                     !.results = FromDicts(Val(g.ret)),
                                                     !.out = Some(FromDicts(Val(g.ret)))]]
                       ELSE req' = [req EXCEPT ![r] = [looked EXCEPT !.pc = "text"]]
           ELSE /\ up /\ fail = 0
                /\ UNCHANGED <<cacheVars, faults>>
                /\ req' = [req EXCEPT ![r] = [c EXCEPT !.pc = "text"]]
    /\ UNCHANGED <<keyVars, fn, now, rerankVars, storeVars, lastPut>>

\* rag.py:204-228 with hybrid_search (rag.py:137-174) up to the request sent
\* to the scoring service.  ok: the embedding and the vector search answer;
\* init_ok: the Cohere client can be built
SearchText(r, ok, init_ok) ==
    /\ req[r].pc = "text"
    /\ LET c == req[r]
           fused == FusedResults(text_index, c.query, c.top_k, c.use_rerank)
           avail == get_cohere_client(RS, cohere_api_key, init_ok)
           plain == search_text(text_index, c.query, c.top_k)
           builds == /\ c.query # <<>> /\ ok /\ c.use_hybrid /\ c.use_rerank
                     /\ reranker_enabled /\ ~cohere_client /\ cohere_api_key
       IN  /\ c.query = <<>> => ok
           /\ ~builds => init_ok
           /\ Spend(Fault(ok) + Fault(init_ok))
           /\ IF c.query = <<>>
              THEN /\ req' = [req EXCEPT ![r].pc = "image"]
                   /\ UNCHANGED <<cohere_client, reranker_enabled>>
              ELSE IF ~ok
              THEN /\ req' = [req EXCEPT ![r].pc = "error",
                                         ![r].tfault = TRUE,
                                         ![r].steps = @ \cup {"embed", "embed_raised"}]
                   /\ UNCHANGED <<cohere_client, reranker_enabled>>
              ELSE IF ~c.use_hybrid
              THEN /\ req' = [req EXCEPT ![r].pc = "image",
                                         ![r].steps = @ \cup {"embed", "vector"},
                                         ![r].results = @ \o MapText(plain)]
                   /\ UNCHANGED <<cohere_client, reranker_enabled>>
              ELSE IF ~c.use_rerank
              THEN /\ req' = [req EXCEPT ![r].pc = "image",
                                         ![r].steps = @ \cup {"expand", "embed", "vector"},
                                         ![r].results = @ \o MapText(Take(fused, c.top_k))]
                   /\ UNCHANGED <<cohere_client, reranker_enabled>>
              ELSE /\ ApplyRS(avail.rs)
                   /\ IF ~avail.client
                      THEN req' = [req EXCEPT
                                     ![r].pc = "image",
                                     ![r].steps = @ \cup {"expand", "embed", "vector"},
                                     ![r].results = @ \o MapText(Take(fused, c.top_k))]
                      ELSE IF fused = <<>>
                      THEN req' = [req EXCEPT
                                     ![r].pc = "image",
                                     ![r].steps = @ \cup {"expand", "embed", "vector"}]
                      ELSE req' = [req EXCEPT
                                     ![r].pc = "rerank",
                                     ![r].steps = @ \cup {"expand", "embed", "vector",
                                                          "rerank_call"},
                                     ![r].fused = fused]
    /\ UNCHANGED <<keyVars, fn, now, cacheVars, cohere_api_key, auth_seen,
                   transient_seen, storeVars, ret, lastPut, calls>>

\* reranker.py:90-128: the scoring service answers.  outcome is an error of
\* RerankErrors, or "ok" with the order of the returned indices (an order
\* that names no document of the list is a malformed answer)
RerankDone(r, outcome, order) ==
    /\ req[r].pc = "rerank"
    /\ LET c == req[r]
           a == rerank_answer(RS, c.fused, outcome, order)
           kind == Outcome(outcome, order, Len(c.fused))
       IN  /\ IF a.raised
              THEN req' = [req EXCEPT ![r].pc = "error",
                                      ![r].fused = <<>>,
                                      ![r].outcome = kind,
                                      ![r].steps = @ \cup {"rerank_raised"}]
              ELSE req' = [req EXCEPT ![r].pc = "image",
                                      ![r].fused = <<>>,
                                      ![r].outcome = kind,
                                      ![r].results = @ \o MapText(a.list)]
           /\ reranker_enabled' = a.rs.enabled
           /\ auth_seen' = (auth_seen \/ kind = "unauthorized")
           /\ transient_seen' = (transient_seen \/ kind \in Transient)
           /\ Spend(Fault(kind = "ok"))
    /\ UNCHANGED <<keyVars, fn, now, cacheVars, cohere_client, cohere_api_key, storeVars,
                   ret, lastPut, calls>>

\* rag.py:230-295: the image channels, the final sort and the cache write.
\* ok1, ok2: the text-to-image and the image-to-image channel answer; an
\* exception of either channel is caught and passed over (rag.py:255-256,
\* 282-283), which the step "image_raised" records
SearchFinish(r, ok1, ok2, up, fail) ==
    /\ req[r].pc = "image"
    /\ LET c == req[r]
           by_text == IF c.query # <<>> /\ ok1
                      THEN c.results \o MapImage(search_images(image_index,
                                                     expand_query(c.query), c.top_k))
                      ELSE c.results
           by_image == IF ~IsNone(c.image) /\ ok2
                       THEN AppendNew(by_text,
                                MapImage(search_images(image_index, Val(c.image), c.top_k)))
                       ELSE by_text
           final_results == Take(SortDesc(by_image, Scores(by_image)), c.top_k)
           key == generate_cache_key(c.query, c.top_k)
           w == set_cached_results(CS, c.query, c.top_k, ModelDump(final_results), 0,
                                   up, fail)
           written == Cacheable(c)
           n == IF written THEN CacheFaults(up, fail) ELSE 0
           finished == [c EXCEPT !.results = final_results,
                                 !.steps = (IF written THEN @ \cup {"cache_write"} ELSE @)
                                           \cup (IF ok1 /\ ok2 THEN {}
                                                 ELSE {"image_raised"}),
                                 !.cfault = IF n > 0 THEN @ \cup {"put"} ELSE @]
       IN  /\ c.query = <<>> => ok1
           /\ IsNone(c.image) => ok2
           /\ IF written THEN fail \in PutFailChoices(up) ELSE up /\ fail = 0
           /\ Spend(Fault(ok1) + Fault(ok2) + n)
           /\ IF written
              THEN /\ ApplyCS(w.cs)
                   /\ lastPut' =
                        IF ~Reaches(up) THEN lastPut
                        ELSE [lastPut EXCEPT ![key] =
                                IF fail = 0
                                THEN Some([results |-> ModelDump(final_results),
                                           exp |-> now + cache_ttl])
                                ELSE None]
              ELSE UNCHANGED <<cacheVars, lastPut>>
           /\ IF written /\ w.raised
              THEN req' = [req EXCEPT ![r] =
                             [finished EXCEPT !.pc = "error",
                                              !.steps = @ \cup {"cache_raised"}]]
              ELSE req' = [req EXCEPT ![r] =
                             [finished EXCEPT !.pc = "done",
                                              !.out = Some(final_results)]]
    /\ UNCHANGED <<keyVars, fn, now, rerankVars, storeVars, ret, calls>>

\* the caller takes the result or the error
SearchReturn(r) ==
    /\ req[r].pc \in {"done", "error"}
    /\ req' = [req EXCEPT ![r] = IdleReq]
    /\ UNCHANGED <<keyVars, fn, now, cacheVars, rerankVars, storeVars, ret, lastPut, calls,
                   faults>>

\* ------------------------------------------------------------------------
\* The routes of routers/kb.py
\* ------------------------------------------------------------------------

\* an await expression needs an awaitable; a bool is none
IsAwaitable(v) == v \notin BOOLEAN

\* DELETE /api/kb/documents/{document_id} (kb.py:114-131).  The call of
\* vector_store.delete_document (vector_store.py:142-176) runs and returns a
\* bool; awaiting that bool raises TypeError, which ends the handler.
\* ret.n is the number of documents the call removed from the store.
DeleteDocumentRoute(doc, up, fail) ==
    /\ calls < MaxCalls
    /\ \A r \in ReqIds : req[r].pc = "idle"
    /\ calls' = calls + 1
    /\ LET success == doc \in documents
           inv == invalidate_cache(CS, "", doc, up, fail, {})
           removed == IF success THEN 1 ELSE 0
       IN  /\ documents' = documents \ {doc}
           /\ text_index' = IF success THEN text_index \ ChunksOf(doc, TextChunks)
                            ELSE text_index
           /\ image_index' = IF success THEN image_index \ ChunksOf(doc, ImageChunks)
                             ELSE image_index
           /\ IF IsAwaitable(success) /\ success
              THEN /\ fail \in ScanFailChoices(up)
                   /\ Spend(CacheFaults(up, fail))
                   /\ ApplyCS(inv.cs)
                   /\ lastPut' = ForgetPuts(CS, "", up)
                   /\ ret' = Ret("delete_document", NoKey, None, TRUE, removed,
                                 fail = 0 /\ Reaches(up), "", doc, 0)
              ELSE /\ up /\ fail = 0
                   /\ UNCHANGED <<cacheVars, lastPut, faults>>
                   /\ ret' = Ret("delete_document", NoKey, None, FALSE, removed, FALSE,
                                 "", doc, 0)
    /\ UNCHANGED <<keyVars, fn, now, rerankVars, req>>

\* POST /api/kb/cache/clear (kb.py:291-304)
ClearCacheRoute(pattern, doc, up, fail, done) ==
    /\ calls < MaxCalls
    /\ \A r \in ReqIds : req[r].pc = "idle"
    /\ calls' = calls + 1
    /\ fail \in ScanFailChoices(up)
    /\ Spend(CacheFaults(up, fail))
    /\ LET inv == invalidate_cache(CS, pattern, doc, up, fail, done)
       IN  /\ ApplyCS(inv.cs)
           /\ ret' = Ret("cache_clear", NoKey, None, TRUE, inv.ret,
                         fail = 0 /\ Reaches(up), pattern, doc, Unrelated(CS, doc))
    /\ lastPut' = ForgetPuts(CS, pattern, up)
    /\ UNCHANGED <<keyVars, fn, now, rerankVars, storeVars, req>>

\* the request bodies of the cache-clear route
ClearArgs == {<<p, <<>>>> : p \in Patterns} \cup {<<"", d>> : d \in Docs}

\* ------------------------------------------------------------------------
\* The program: one worker process, whose event loop runs one request at a
\* time (slot 1).  Of the failures of the scoring service that end in the
\* last except clause of rerank, Spec takes the plain exception; SpecRerank
\* and SpecIds take the timeout and the malformed answer as well
\* ------------------------------------------------------------------------

\* the orders of the model: the best first, and the reverse
RerankOrders(r) ==
    LET n == Len(req[r].fused)
        m == Min(req[r].top_k, n)
    IN  {[i \in 1..m |-> i], [i \in 1..m |-> n + 1 - i]}

\* a malformed answer: an index one beyond the list
BadOrder(r) == <<Len(req[r].fused) + 1>>

Next ==
    \/ Tick
    \/ \E in \in SearchInputs, up \in UpChoices, fail \in 0..3 : SearchStart(1, in, up, fail)
    \/ \E ok \in BOOLEAN, init_ok \in BOOLEAN : SearchText(1, ok, init_ok)
    \/ \E outcome \in RerankErrors \ {"timeout"} : RerankDone(1, outcome, <<>>)
    \/ \E order \in RerankOrders(1) : RerankDone(1, "ok", order)
    \/ \E ok1 \in BOOLEAN, ok2 \in BOOLEAN, up \in UpChoices, fail \in 0..3 :
          SearchFinish(1, ok1, ok2, up, fail)
    \/ SearchReturn(1)
    \/ \E doc \in Docs, up \in UpChoices, fail \in 0..1 : DeleteDocumentRoute(doc, up, fail)
    \/ \E a \in ClearArgs, up \in UpChoices, fail \in 0..1, done \in SUBSET BackendKeys :
          /\ fail = 0 => done = {}
          /\ ClearCacheRoute(a[1], a[2], up, fail, done)

Spec == Init /\ [][Next]_vars

\* ------------------------------------------------------------------------
\* Properties of search and of the routes (Spec)
\* ------------------------------------------------------------------------
HitCount(key) ==
    IF MetaKey(key) \in DOMAIN redisHashes THEN redisHashes[MetaKey(key)].hit_count ELSE 0

KeyOf(c) == generate_cache_key(c.query, c.top_k)

\* C1: a pure-text search with caching enabled whose lookup meets an
\* unexpired entry for its key returns that entry's results at once: the call
\* is finished with the entry's results and has taken no step but the lookup
\* (no expansion, no embedding, no vector search, no rerank call, no write).
C1_HitShortCircuits ==
    \A r \in ReqIds :
        ~IsNone(req[r].entry) =>
            /\ req[r].pc = "done"
            /\ req[r].out = Some(Val(req[r].entry).results)
            /\ req[r].steps = {"cache_get"}

\* C2: a pure-text search that missed and completed leaves its results under
\* its key; a later search with the same normalized query and top_k that meets
\* the entry returns the entry's results, and the entry's hit_count is one
\* more than before the call.
C2_WriteThroughThenHit ==
    \A r \in ReqIds :
        /\ (/\ req[r].pc = "done" /\ "cache_write" \in req[r].steps
            /\ req[r].cfault = {} /\ cache_enabled /\ redis_client)
           => /\ KeyOf(req[r]) \in DOMAIN redisStrings
              /\ Some(FromDicts(Loads(redisStrings[KeyOf(req[r])].val))) = req[r].out
        /\ (req[r].pc = "done" /\ ~IsNone(req[r].entry))
           => /\ req[r].out = Some(Val(req[r].entry).results)
              /\ HitCount(KeyOf(req[r])) = Val(req[r].entry).hit_count + 1

\* C5: once the document-delete route has removed an existing document, the
\* cache holds no query-result entry and no entry metadata.
C5_DeleteClearsQueryCache ==
    (ret.op = "delete_document" /\ ret.n = 1) =>
        \A x \in BackendKeys : x.ns # "query"

\* C7: a step of a search that carries an image changes neither the cache
\* entries, nor a hit_count, nor the hit and miss counters, nor the state of
\* the cache client.
C7_ImageSearchBypassesCache ==
    [][\A r \in ReqIds :
          (req'[r] # req[r] /\ ~IsNone(req'[r].image)) => UNCHANGED cacheVars]_vars

C7_Witness ==
    /\ req[1].pc = "done"
    /\ ~IsNone(req[1].image)
    /\ req[1].query # <<>>
    /\ KeyOf(req[1]) \in DOMAIN redisStrings
    /\ Some(FromDicts(Loads(redisStrings[KeyOf(req[1])].val))) # req[1].out

\* C8: a failure of the cache never reaches the caller of search, a lookup
\* that failed counts as a miss (no entry is used, the pipeline starts where
\* an uncached call starts and runs to the end), and a search whose cache
\* write failed still returns its results.
C8_CacheFailureIsMiss ==
    \A r \in ReqIds :
        /\ "cache_raised" \notin req[r].steps
        /\ "get" \in req[r].cfault =>
              /\ IsNone(req[r].entry)
              /\ req[r].pc = "text" =>
                    req[r].results = <<>> /\ req[r].fused = <<>> /\ IsNone(req[r].out)
              /\ req[r].pc = "done" =>
                    {"embed", "vector", "cache_write"} \subseteq req[r].steps
        /\ "put" \in req[r].cfault =>
              req[r].pc = "done" /\ req[r].out = Some(req[r].results)

C8_Witness ==
    /\ req[1].pc = "done"
    /\ req[1].cfault = {"get"}
    /\ req[1].held
    /\ req[1].out # Some(<<>>)

\* C9: a search that starts after an authentication failure was received
\* sends no request to the scoring service, and the flag is off from the
\* failure on.
C9_NoCallAfterAuthFailure ==
    /\ auth_seen => ~reranker_enabled
    /\ \A r \in ReqIds : req[r].after_auth => "rerank_call" \notin req[r].steps

C9_Witness ==
    /\ req[1].after_auth
    /\ req[1].pc = "done"
    /\ req[1].use_hybrid /\ req[1].use_rerank
    /\ {"expand", "vector"} \subseteq req[1].steps

\* ------------------------------------------------------------------------
\* Concurrent searches (SpecRerank): two calls in flight, interleaved at
\* the external calls; the cache is not used
\* ------------------------------------------------------------------------
RerankInputs ==
    {SearchArgs(QB, None, 1, Options(TRUE, TRUE, FALSE)),
     SearchArgs(Qb, None, MaxTopK, Options(TRUE, TRUE, FALSE))}

InitRerank == Init /\ documents = Docs

NextRerank ==
    \E r \in ReqIds :
        \/ \E in \in RerankInputs : SearchStart(r, in, TRUE, 0)
        \/ \E ok \in BOOLEAN, init_ok \in BOOLEAN : SearchText(r, ok, init_ok)
        \/ \E outcome \in RerankErrors : RerankDone(r, outcome, <<>>)
        \/ \E order \in RerankOrders(r) \cup {BadOrder(r)} : RerankDone(r, "ok", order)
        \/ SearchFinish(r, TRUE, TRUE, TRUE, 0)
        \/ SearchReturn(r)

SpecRerank == InitRerank /\ [][NextRerank]_vars

\* C10: in every step, under every interleaving of the two calls and every
\* outcome of the scoring service, a flag that is off stays off.
C10_FlagOneWay == [][~reranker_enabled => ~reranker_enabled']_vars

C10_Witness ==
    /\ ~reranker_enabled
    /\ cohere_client
    /\ \E r \in ReqIds : req[r].pc = "rerank"

\* ------------------------------------------------------------------------
\* Failures of the scoring service (Spec)
\* ------------------------------------------------------------------------

\* C11: the step in which a call receives a rate-limit error or any other
\* failure that is not an authentication failure leaves the flag and the
\* client as they were, the flag is on as long as only such failures were
\* received, and a hybrid search with reranking that starts after such a
\* failure (and after no authentication failure) sends its request to the
\* scoring service again.
C11_TransientKeepsFlag ==
    /\ [][\A r \in ReqIds :
             (req[r].pc = "rerank" /\ req'[r].outcome \in Transient)
                => UNCHANGED <<reranker_enabled, cohere_client>>]_vars
    /\ []((transient_seen /\ ~auth_seen) => (reranker_enabled /\ cohere_client))
    /\ [](\A r \in ReqIds :
             (/\ req[r].after_transient /\ ~req[r].after_auth
              /\ req[r].use_hybrid /\ req[r].use_rerank
              /\ "vector" \in req[r].steps /\ text_index # {})
                => "rerank_call" \in req[r].steps)

C11_Witness ==
    /\ req[1].after_transient
    /\ req[1].pc = "done"
    /\ "rerank_call" \in req[1].steps
    /\ req[1].outcome = "ok"

\* C12: no outcome of the scoring service (authentication failure, rate
\* limit, timeout, any other exception, an answer with a malformed index)
\* leaves rerank as an exception: the call that received the outcome goes on
\* to the image channels with a list of text results that is not empty, and
\* when it is done it returns results.
C12_RerankNeverRaises ==
    \A r \in ReqIds :
        /\ "rerank_raised" \notin req[r].steps
        /\ req[r].outcome # "" =>
              /\ req[r].pc \in {"image", "done"}
              /\ req[r].results # <<>>
              /\ req[r].pc = "done" => req[r].out = Some(req[r].results)

C12_Witness ==
    /\ req[1].pc = "done"
    /\ req[1].outcome = "bad_index"
    /\ ~IsNone(req[1].out)
    /\ Val(req[1].out) # <<>>

\* ------------------------------------------------------------------------
\* rerank called directly (SpecRerankCall): any list of candidates, any
\* top_n, every outcome of the service, one call after another
\* ------------------------------------------------------------------------

\* the candidate lists: the text chunks in any order, without repetition
Candidates ==
    {[i \in 1..Len(o) |-> TextPoint(QB, SetToSeq(TextChunks)[o[i]])] :
        o \in UNION {Orders(Cardinality(TextChunks), m) : m \in 0..Cardinality(TextChunks)}}

\* top_n: None (0) or a number
TopNs == 0..MaxTopK

RerankCall(docs, top_n, init_ok, outcome, order) ==
    LET n == Len(docs)
        got == get_cohere_client(RS, cohere_api_key, init_ok)
        builds == docs # <<>> /\ reranker_enabled /\ ~cohere_client /\ cohere_api_key
        calls_service == docs # <<>> /\ got.client
        out == rerank(RS, cohere_api_key, init_ok, docs, top_n, outcome, order)
        kind == IF out.called THEN Outcome(outcome, order, n) ELSE ""
    IN  /\ ~builds => init_ok
        /\ IF calls_service /\ outcome = "ok"
           THEN order \in Orders(n, RequestedTopN(top_n, n)) \cup {<<n + 1>>}
           ELSE order = <<>>
        /\ ~calls_service => outcome = "ok"
        /\ ApplyRS(out.rs)
        /\ auth_seen' = (auth_seen \/ kind = "unauthorized")
        /\ transient_seen' = (transient_seen \/ kind \in Transient)
        /\ fn' = [op |-> "rerank", documents |-> docs, top_n |-> top_n,
                  raised |-> out.raised, list |-> out.list, called |-> out.called,
                  disabled |-> docs # <<>> /\ ~got.client, outcome |-> kind,
                  after_auth |-> auth_seen, after |-> out.after]
        /\ UNCHANGED <<keyVars, now, cacheVars, cohere_api_key, storeVars, req, ret,
                       lastPut, calls, faults>>

InitRerankCall == Init /\ documents = {}

\* the list a caller holds from its last call, which it may pass again
\* (rerank_batch passes the lists it is given, reranker.py:160-162)
Held == IF fn.op = "rerank" THEN {fn.after} ELSE {}

NextRerankCall ==
    \E docs \in Candidates \cup Held, top_n \in TopNs, init_ok \in BOOLEAN,
       outcome \in RerankErrors \cup {"ok"} :
        \E order \in {<<>>, <<Len(docs) + 1>>}
                        \cup Orders(Len(docs), RequestedTopN(top_n, Len(docs))) :
            RerankCall(docs, top_n, init_ok, outcome, order)

SpecRerankCall == InitRerankCall /\ [][NextRerankCall]_vars

\* the number of candidates a call asks for, top_n or the configured default
AskedFor(top_n) == IF top_n = 0 THEN rerank_top_n ELSE top_n

\* C13: a call of rerank(query, candidates, n) that finds the reranker
\* disabled (no credential, or the flag cleared by an authentication failure)
\* returns the first n candidates, in their order and with their content,
\* each flagged as a fallback result.
C13_DisabledReturnsFlaggedPrefix ==
    (fn.op = "rerank" /\ fn.disabled) =>
        /\ ~fn.raised
        /\ Len(fn.list) = Min(AskedFor(fn.top_n), Len(fn.documents))
        /\ \A i \in 1..Len(fn.list) :
              /\ i <= Len(fn.documents)
              /\ fn.list[i].rerank_fallback
              /\ [fn.list[i] EXCEPT !.rerank_fallback = FALSE, !.relevance_score = None]
                   = [fn.documents[i] EXCEPT !.rerank_fallback = FALSE,
                                             !.relevance_score = None]

\* C14: whatever the outcome (an answer, a transient failure, an
\* authentication failure, the reranker disabled), rerank(query, candidates,
\* top_n) returns at most top_n candidates.
C14_AtMostTopN ==
    fn.op = "rerank" => Len(fn.list) <= AskedFor(fn.top_n)

\* ------------------------------------------------------------------------
\* reciprocal_rank_fusion called directly (SpecFuse): the initial state draws
\* the two lists, top_k and the constant; the one step applies the function
\* ------------------------------------------------------------------------

\* chunk ids in any order, repetitions included
IdLists == UNION {[1..n -> TextChunks] : n \in 0..MaxListLen}

\* a dict of the vector list, and a dict of the keyword list, which carries
\* the lexical score (rag.py:146-156)
VectorPoint(c) == TextPoint(QB, c)
KeywordPoint(c) ==
    [TextPoint(QB, c) EXCEPT !.bm25_score = Some(bm25_score(QB, ChunkContent(c)))]

\* top_k as hybrid_search passes it (top_k, or rerank_top_n * 2), and the
\* constant: the default and a small one
FuseTopKs == TopKs \cup {rerank_top_n * 2}
Ks == {RrfK, MaxListLen - 1}

FuseArgs ==
    {[op |-> "fuse_args",
      vector_results |-> [i \in 1..Len(a) |-> VectorPoint(a[i])],
      keyword_results |-> [i \in 1..Len(b) |-> KeywordPoint(b[i])],
      top_k |-> top_k, k |-> k, out |-> <<>>] :
        a \in IdLists, b \in IdLists, top_k \in FuseTopKs, k \in Ks}

Fuse ==
    /\ fn.op = "fuse_args"
    /\ fn' = [fn EXCEPT !.op = "fuse",
                        !.out = reciprocal_rank_fusion(fn.vector_results,
                                                       fn.keyword_results, fn.top_k, fn.k)]
    /\ UNCHANGED <<keyVars, now, cacheVars, rerankVars, storeVars, req, ret, lastPut,
                   calls, faults>>

InitFuse ==
    /\ kq0 = <<>>
    /\ kq = <<>>
    /\ InitBase
    /\ documents = {}
    /\ cohere_api_key
    /\ fn \in FuseArgs

SpecFuse == InitFuse /\ [][Fuse]_vars

NoRepeat(list) == \A i, j \in 1..Len(list) : i # j => list[i].id # list[j].id

IdSet(list) == {list[i].id : i \in 1..Len(list)}

\* the share of a list in the total of id, as the specification states it:
\* 1 / (k + rank + 1) for the 0-based rank of id in the list, in units of
\* 1/RrfScale(k)
Share(id, list, k) ==
    IF id \in IdSet(list)
    THEN RrfScale(k) \div (k + (CHOOSE i \in 1..Len(list) : list[i].id = id))
    ELSE 0

Total(id) == Share(id, fn.vector_results, fn.k) + Share(id, fn.keyword_results, fn.k)

Fused == fn.op = "fuse" /\ NoRepeat(fn.vector_results) /\ NoRepeat(fn.keyword_results)

AllIds == IdSet(fn.vector_results) \cup IdSet(fn.keyword_results)

InBoth == IdSet(fn.vector_results) \cap IdSet(fn.keyword_results)

\* C15: for two lists without repeated ids the fused list holds
\* min(top_k, number of distinct ids) candidates, no id twice, in the order
\* of non-increasing total, where the total of a candidate is the sum of
\* 1 / (k + rank + 1) over the lists that hold it; what was cut has no
\* larger total than what was kept.
C15_FusionTotals ==
    Fused =>
        /\ Len(fn.out) = Min(fn.top_k, Cardinality(AllIds))
        /\ \A i \in 1..Len(fn.out) : fn.out[i].id \in AllIds
        /\ \A i, j \in 1..Len(fn.out) :
              i < j => /\ fn.out[i].id # fn.out[j].id
                       /\ Total(fn.out[i].id) >= Total(fn.out[j].id)
        /\ \A id \in AllIds \ IdSet(fn.out) :
              \A i \in 1..Len(fn.out) : Total(fn.out[i].id) >= Total(id)

C15_Witness ==
    /\ Fused
    /\ fn.k = RrfK
    /\ Cardinality(AllIds) = 3
    /\ InBoth # {}
    /\ Len(fn.out) = 2
    /\ Total(fn.out[1].id) > Total(fn.out[2].id)
    /\ fn.out[1].id # fn.vector_results[1].id

\* C16: for two lists without repeated ids, neither longer than the constant
\* (shorter than 61 entries for the constant 60), every candidate of both
\* lists stands in the fused list before every candidate of one list only,
\* and none of the former is cut while one of the latter is kept.
C16_ConsensusFirst ==
    (Fused /\ Len(fn.vector_results) <= fn.k /\ Len(fn.keyword_results) <= fn.k) =>
        /\ \A i, j \in 1..Len(fn.out) :
              (fn.out[i].id \in InBoth /\ fn.out[j].id \notin InBoth) => i < j
        /\ (InBoth \ IdSet(fn.out) # {}) => IdSet(fn.out) \subseteq InBoth

C16_Witness ==
    /\ Fused
    /\ fn.k = RrfK
    /\ Len(fn.out) = 3
    /\ fn.out[1].id \in InBoth
    /\ fn.out[2].id \notin InBoth
    /\ fn.vector_results[1].id \notin InBoth
    /\ fn.keyword_results[1].id \notin InBoth

\* C17: a candidate of both lists leaves the fusion with the dict of the
\* first (vector) list, a candidate of the second list only with the dict of
\* the second list.
C17_VectorPayloadWins ==
    fn.op = "fuse" =>
        \A i \in 1..Len(fn.out) :
            LET id == fn.out[i].id
            IN  /\ id \in InBoth => fn.out[i] = VectorPoint(id)
                /\ id \in IdSet(fn.keyword_results) \ IdSet(fn.vector_results)
                      => fn.out[i] = KeywordPoint(id)

C17_Witness ==
    /\ fn.op = "fuse"
    /\ \E i, j \in 1..Len(fn.out) :
          /\ fn.out[i].id \in InBoth
          /\ fn.out[i] # KeywordPoint(fn.out[i].id)
          /\ fn.out[j].id \notin IdSet(fn.vector_results)
          /\ fn.out[j] # VectorPoint(fn.out[j].id)

\* ------------------------------------------------------------------------
\* The list search returns (Spec)
\* ------------------------------------------------------------------------

\* C18: the list a finished search returns, computed or taken from the
\* cache, has at most top_k entries and its scores do not increase.
C18_BoundedAndSorted ==
    \A r \in ReqIds :
        req[r].pc = "done" =>
            LET out == Val(req[r].out)
            IN  /\ Len(out) <= req[r].top_k
                /\ \A i, j \in 1..Len(out) : i < j => out[i].score >= out[j].score

C18_Witness ==
    /\ req[1].pc = "done"
    /\ req[1].steps = {"cache_get"}
    /\ Len(Val(req[1].out)) = req[1].top_k
    /\ Len(Val(req[1].out)) >= 2
    /\ Val(req[1].out)[1].score > Val(req[1].out)[2].score

\* ------------------------------------------------------------------------
\* Searches over a store in which an image chunk and a text chunk have the
\* same id (SpecIds)
\* ------------------------------------------------------------------------
InitIds ==
    /\ kq0 = <<>>
    /\ kq = <<>>
    /\ now = 0
    /\ redisStrings = EmptyMap
    /\ redisHashes = EmptyMap
    /\ redis_client = FALSE
    /\ cache_enabled = TRUE
    /\ cache_stats = [hits |-> 0, misses |-> 0]
    /\ cohere_client = FALSE
    /\ reranker_enabled = TRUE
    /\ cohere_api_key \in BOOLEAN
    /\ auth_seen = FALSE
    /\ transient_seen = FALSE
    /\ documents = Docs
    /\ text_index = TextChunks
    /\ image_index = {I1, IX}
    /\ req = [r \in ReqIds |-> IdleReq]
    /\ ret = Ret("none", NoKey, None, FALSE, 0, FALSE, "", <<>>, 0)
    /\ fn = [op |-> "none"]
    /\ lastPut = [x \in AllMainKeys |-> None]
    /\ calls = 0
    /\ faults = 0

NextIds ==
    \/ \E in \in SearchInputs : SearchStart(1, in, TRUE, 0)
    \/ \E init_ok \in BOOLEAN : SearchText(1, TRUE, init_ok)
    \/ \E outcome \in RerankErrors : RerankDone(1, outcome, <<>>)
    \/ \E order \in RerankOrders(1) \cup {BadOrder(1)} : RerankDone(1, "ok", order)
    \/ SearchFinish(1, TRUE, TRUE, TRUE, 0)
    \/ SearchReturn(1)

SpecIds == InitIds /\ [][NextIds]_vars

\* C19: the list a finished search returns holds no chunk id twice, whatever
\* the query, the image and the content of the two indexes (a chunk id is
\* unique within its index, not across the two).
C19_NoDuplicateIds ==
    \A r \in ReqIds :
        req[r].pc = "done" =>
            \A i, j \in 1..Len(Val(req[r].out)) :
                i # j => Val(req[r].out)[i].id # Val(req[r].out)[j].id

\* ------------------------------------------------------------------------
\* Failure of the text channel (Spec)
\* ------------------------------------------------------------------------

\* C20: a search whose text-channel embedding or vector search failed ends
\* with that failure: it returns no list, holds no text ranking, has not
\* written its results, and has changed nothing in the cache: the entry its
\* lookup met, if any, is still there with the hit_count it had.
C20_TextFailurePropagates ==
    \A r \in ReqIds :
        req[r].tfault =>
            /\ req[r].pc = "error"
            /\ IsNone(req[r].out)
            /\ req[r].results = <<>>
            /\ "cache_write" \notin req[r].steps
            /\ ~IsNone(req[r].entry) =>
                  /\ KeyOf(req[r]) \in DOMAIN redisStrings
                  /\ HitCount(KeyOf(req[r])) = Val(req[r].entry).hit_count

\* ------------------------------------------------------------------------
\* Failure of an image channel (Spec)
\* ------------------------------------------------------------------------

\* C21: a search in which the embedding call or the index search of an image
\* channel failed ends with that failure: it returns no list and writes no
\* list to the cache.
C21_ImageFailurePropagates ==
    \A r \in ReqIds :
        "image_raised" \in req[r].steps =>
            /\ req[r].pc = "error"
            /\ IsNone(req[r].out)
            /\ "cache_write" \notin req[r].steps

\* ------------------------------------------------------------------------
\* Concurrent searches with the cache (SpecRace): two calls in flight,
\* interleaved at the external calls, the cache backend up.  The three
\* commands of one cache write are taken as one step: the list an entry
\* holds is set by SETEX alone
\* ------------------------------------------------------------------------
RaceInputs ==
    {SearchArgs(QB, None, 1, Defaults),
     SearchArgs(Qb, None, MaxTopK, Defaults)}

InitRace == Init /\ documents = Docs

NextRace ==
    \E r \in ReqIds :
        \/ \E in \in RaceInputs : SearchStart(r, in, TRUE, 0)
        \/ \E ok \in BOOLEAN, init_ok \in BOOLEAN : SearchText(r, ok, init_ok)
        \/ \E outcome \in RerankErrors \ {"timeout"} : RerankDone(r, outcome, <<>>)
        \/ \E order \in RerankOrders(r) : RerankDone(r, "ok", order)
        \/ \E ok1 \in BOOLEAN : SearchFinish(r, ok1, TRUE, TRUE, 0)
        \/ SearchReturn(r)

SpecRace == InitRace /\ [][NextRace]_vars

\* the lookup of the call found no entry under its key
Missed(c) ==
    /\ Cacheable(c)
    /\ "cache_get" \in c.steps
    /\ ~c.held
    /\ c.cfault = {}

\* C22: when two searches for the same pure-text query and top_k have both
\* missed the cache and both finished, each has run the whole pipeline and
\* written its list, and the entry holds the list and the expiry of the
\* write that was made last, which is the list one of the two returned.
C22_LastWriteWins ==
    (/\ req[1].pc = "done" /\ req[2].pc = "done"
     /\ req[1].query = req[2].query /\ req[1].top_k = req[2].top_k
     /\ Missed(req[1]) /\ Missed(req[2]))
    => LET key == KeyOf(req[1])
       IN  /\ \A r \in ReqIds :
                 /\ {"embed", "vector", "cache_write"} \subseteq req[r].steps
                 /\ req[r].out = Some(req[r].results)
           /\ key \in DOMAIN redisStrings
           /\ ~IsNone(lastPut[key])
           /\ Loads(redisStrings[key].val) = Val(lastPut[key]).results
           /\ redisStrings[key].exp = Some(Val(lastPut[key]).exp)
           /\ \E r \in ReqIds :
                 Val(lastPut[key]).results = ModelDump(req[r].results)

\* both missed, both wrote, the lists differ and the entry holds the list of
\* the first slot: the write of the second slot was replaced
C22_Witness ==
    /\ req[1].pc = "done" /\ req[2].pc = "done"
    /\ req[1].query = req[2].query /\ req[1].top_k = req[2].top_k
    /\ Missed(req[1]) /\ Missed(req[2])
    /\ req[1].results # req[2].results
    /\ KeyOf(req[1]) \in DOMAIN redisStrings
    /\ Loads(redisStrings[KeyOf(req[1])].val) = ModelDump(req[1].results)

\* ------------------------------------------------------------------------
\* Query expansion called directly (SpecExpand): the query is drawn at the
\* start, one step expands it and expands the result again
\* ------------------------------------------------------------------------
MaxExpandLen == 3

ExpandChars == {"B", "b", "a", " ", "U+4E2D"}

ExpandQueries == UNION {[1..n -> ExpandChars] : n \in 0..MaxExpandLen}

Expand ==
    /\ fn.op = "expand_args"
    /\ fn' = [op |-> "expand", query |-> fn.query,
              expanded |-> expand_query(fn.query),
              again |-> expand_query(expand_query(fn.query))]
    /\ UNCHANGED <<keyVars, now, cacheVars, rerankVars, storeVars, req, ret, lastPut,
                   calls, faults>>

InitExpand ==
    /\ kq0 = <<>>
    /\ kq = <<>>
    /\ InitBase
    /\ documents = {}
    /\ cohere_api_key
    /\ fn \in {[op |-> "expand_args", query |-> q] : q \in ExpandQueries}

SpecExpand == InitExpand /\ [][Expand]_vars

\* s contains t when the letter case is left aside
ContainsAnyCase(t, s) == Contains(Lower(t), Lower(s))

EntryWords(entry) == {entry.term} \cup Range(entry.synonyms)

\* the main terms and synonyms of the table that a text contains
WordsIn(s) ==
    {w \in UNION {EntryWords(RAIL_TERMINOLOGY[i]) : i \in 1..Len(RAIL_TERMINOLOGY)} :
        ContainsAnyCase(w, s)}

\* C23: for every entry of the table and every query that contains the
\* entry's main term or one of its synonyms, whatever the letter case, the
\* expanded query contains the query, the main term and every synonym of
\* the entry.
C23_ExpansionSymmetric ==
    fn.op = "expand" =>
        \A i \in 1..Len(RAIL_TERMINOLOGY) :
            (\E w \in EntryWords(RAIL_TERMINOLOGY[i]) : ContainsAnyCase(w, fn.query))
            => /\ Contains(fn.query, fn.expanded)
               /\ \A w \in EntryWords(RAIL_TERMINOLOGY[i]) : Contains(w, fn.expanded)

\* C24: expanding an expanded query brings in no main term or synonym that
\* the first expansion did not bring: both texts contain the same words of
\* the table.
C24_ExpansionIdempotent ==
    fn.op = "expand" => WordsIn(fn.again) = WordsIn(fn.expanded)

\* ------------------------------------------------------------------------
\* The lexical score called directly (SpecBm25): a query and two documents
\* are drawn at the start, one step scores both documents, and the first
\* one also for the query written twice and for the query without the
\* words the document does not hold
\* ------------------------------------------------------------------------
MaxDocLen == 3

Bm25Queries ==
    {<<"a">>, <<"b">>, <<"a", " ", "b">>, <<"a", " ", "A">>, <<"a", "b">>,
     <<"B", " ", "a", " ", "b">>}

Bm25Docs == UNION {[1..n -> {"a", "A", "b"}] : n \in 0..MaxDocLen}

\* doc_lower.count(term) (rag.py:71)
Occurrences(term, document) == Count(term, Lower(document))

\* the words of the query that the document holds
Present(query, document) ==
    SelectSeq(Split(Lower(query)), LAMBDA t : Occurrences(t, document) > 0)

Bm25 ==
    /\ fn.op = "bm25_args"
    /\ fn' = [op |-> "bm25", query |-> fn.query, d1 |-> fn.d1, d2 |-> fn.d2,
              s1 |-> bm25_score(fn.query, fn.d1),
              s2 |-> bm25_score(fn.query, fn.d2),
              twice |-> bm25_score(fn.query \o <<" ">> \o fn.query, fn.d1),
              present |-> bm25_score(Join(<<" ">>, Present(fn.query, fn.d1)), fn.d1)]
    /\ UNCHANGED <<keyVars, now, cacheVars, rerankVars, storeVars, req, ret, lastPut,
                   calls, faults>>

InitBm25 ==
    /\ kq0 = <<>>
    /\ kq = <<>>
    /\ InitBase
    /\ documents = {}
    /\ cohere_api_key
    /\ fn \in {[op |-> "bm25_args", query |-> q, d1 |-> d1, d2 |-> d2] :
                 q \in Bm25Queries, d1 \in Bm25Docs, d2 \in Bm25Docs}

SpecBm25 == InitBm25 /\ [][Bm25]_vars

QueryWords(query) == Range(Split(Lower(query)))

\* C25: for one query, a document that holds every word of the query at
\* least as often as another document scores at least as much; the words
\* the document does not hold add nothing to its score, and a word written
\* several times in the query counts once.
C25_LexicalMonotone ==
    fn.op = "bm25" =>
        /\ (\A t \in QueryWords(fn.query) :
                Occurrences(t, fn.d2) >= Occurrences(t, fn.d1)) => fn.s2 >= fn.s1
        /\ fn.present = fn.s1
        /\ (\A t \in QueryWords(fn.query) : Occurrences(t, fn.d1) = 0) => fn.s1 = 0
        /\ fn.twice = fn.s1

\* a query with a repeated word and a word the first document lacks, and a
\* second document that holds a word more often and scores more
C25_Witness ==
    /\ fn.op = "bm25"
    /\ Len(Split(Lower(fn.query))) > Cardinality(QueryWords(fn.query))
    /\ \E t \in QueryWords(fn.query) : Occurrences(t, fn.d1) = 0
    /\ \A t \in QueryWords(fn.query) : Occurrences(t, fn.d2) >= Occurrences(t, fn.d1)
    /\ fn.s1 > 0
    /\ fn.s2 > fn.s1

\* ------------------------------------------------------------------------
\* Overwriting an entry (SpecCache)
\* ------------------------------------------------------------------------

\* C26: right after a put that met no backend error, whatever the key held
\* before, the key holds exactly the list of the put with hit_count 0, and
\* the entry and its metadata expire one TTL after the time of the put:
\* the TTL given, or the configured cache_ttl when none was given.
C26_PutOverwrites ==
    (ret.op = "put" /\ ret.clean /\ now = ret.at) =>
        LET ttl_used == IF fn.ttl = 0 THEN cache_ttl ELSE fn.ttl
        IN  /\ ret.ok
            /\ ret.key \in DOMAIN redisStrings
            /\ Loads(redisStrings[ret.key].val) = Val(ret.val)
            /\ redisStrings[ret.key].exp = Some(ret.at + ttl_used)
            /\ MetaKey(ret.key) \in DOMAIN redisHashes
            /\ redisHashes[MetaKey(ret.key)].hit_count = 0
            /\ redisHashes[MetaKey(ret.key)].exp = Some(ret.at + ttl_used)

\* a put with no ttl given on a key that held a longer list which was about
\* to expire
C26_Witness ==
    /\ ret.op = "put" /\ ret.clean /\ now = ret.at
    /\ fn.ttl = 0
    /\ ~IsNone(fn.met)
    /\ Len(Loads(Val(fn.met).val)) > Len(Val(ret.val))
    /\ redisStrings[ret.key].val = Dumps(Val(ret.val))
    /\ Val(fn.met).exp = Some(now + TickSeconds)
    /\ redisStrings[ret.key].exp = Some(now + cache_ttl)

\* ------------------------------------------------------------------------
\* Fallback results and the arguments of rerank (SpecRerankCall)
\* ------------------------------------------------------------------------

\* C27: a call of rerank whose request to the scoring service failed (rate
\* limit, authentication failure, any other exception) returns the
\* candidates it was given, in their order, each with relevance_score equal
\* to its score and marked as a fallback result; a call whose request was
\* answered returns no candidate that carries the fallback mark.
C27_FallbackMarksOnlyFailures ==
    (fn.op = "rerank" /\ fn.called) =>
        IF fn.outcome # "ok"
        THEN /\ ~fn.raised
             /\ Len(fn.list) = Len(fn.documents)
             /\ \A i \in 1..Len(fn.list) :
                   fn.list[i] = [fn.documents[i] EXCEPT
                                   !.rerank_fallback = TRUE,
                                   !.relevance_score = Some(fn.documents[i].score)]
        ELSE \A i \in 1..Len(fn.list) : ~fn.list[i].rerank_fallback

\* C28: in every outcome of a call of rerank, the list that was passed in
\* and every candidate in it are after the call as they were before it.
C28_ArgumentsUnchanged ==
    fn.op = "rerank" => fn.after = fn.documents

\* ------------------------------------------------------------------------
\* hybrid_search called directly (SpecHybrid): the text channel of the
\* pipeline, from the knowledge base as it is, with every outcome of the
\* scoring service
\* ------------------------------------------------------------------------

\* rag.py:163-174, with the fused list of rag.py:137-161 (FusedResults)
\* given.  ok: the embedding and the vector searches answered (otherwise
\* their exception leaves the function).  called: a request was sent to the
\* scoring service
hybrid_search(rs, api_key, init_ok, fused_results, top_k, use_rerank, ok, outcome, order) ==
    LET available == get_cohere_client(rs, api_key, init_ok)
        reranked == rerank(available.rs, api_key, init_ok, fused_results, top_k,
                           outcome, order)
    IN  IF ~ok
        THEN [raised |-> TRUE, list |-> <<>>, rs |-> rs, called |-> FALSE]
        ELSE IF ~use_rerank
        THEN [raised |-> FALSE, list |-> Take(fused_results, top_k), rs |-> rs,
              called |-> FALSE]
        ELSE IF ~available.client
        THEN [raised |-> FALSE, list |-> Take(fused_results, top_k),
              rs |-> available.rs, called |-> FALSE]
        ELSE [raised |-> reranked.raised, list |-> reranked.list, rs |-> reranked.rs,
              called |-> reranked.called]

\* the answers of the model for a list of n candidates and top_n asked:
\* the best first, the reverse, and an index one beyond the list
OrderOf(choice, n, top_n) ==
    CASE choice = "best" -> [i \in 1..Min(top_n, n) |-> i]
      [] choice = "reverse" -> [i \in 1..Min(top_n, n) |-> n + 1 - i]
      [] OTHER -> <<n + 1>>

HybridQueries == {QB, Qb, <<"a">>}

HybridCall(query, top_k, use_rerank, ok, init_ok, outcome, choice) ==
    LET available == get_cohere_client(RS, cohere_api_key, init_ok)
        builds == ok /\ use_rerank /\ reranker_enabled /\ ~cohere_client
                  /\ cohere_api_key
        asks == ok /\ use_rerank /\ available.client
    IN  /\ calls < MaxCalls
        /\ calls' = calls + 1
        /\ ~builds => init_ok
        /\ ~asks => outcome = "ok"
        /\ outcome # "ok" \/ ~asks => choice = "best"
        /\ \E fused \in {FusedResults(text_index, query, top_k, use_rerank)} :
             \E order \in {OrderOf(choice, Len(fused), top_k)} :
               \E out \in {hybrid_search(RS, cohere_api_key, init_ok, fused, top_k,
                                         use_rerank, ok, outcome, order)} :
                 \E kind \in {IF out.called
                               THEN Outcome(outcome, order, Len(fused)) ELSE ""} :
                    /\ ~out.called => outcome = "ok" /\ choice = "best"
                    /\ ApplyRS(out.rs)
                    /\ auth_seen' = (auth_seen \/ kind = "unauthorized")
                    /\ transient_seen' = (transient_seen \/ kind \in Transient)
                    /\ fn' = [op |-> "hybrid_search", query |-> query,
                              top_k |-> top_k, use_rerank |-> use_rerank,
                              raised |-> out.raised, list |-> out.list,
                              called |-> out.called, outcome |-> kind,
                              keyword |-> IF ok
                                          THEN KeywordResults(text_index, query, top_k,
                                                              use_rerank)
                                          ELSE <<>>]
        /\ UNCHANGED <<keyVars, now, cacheVars, cohere_api_key, storeVars, req, ret,
                       lastPut, faults>>

NextHybrid ==
    \E query \in HybridQueries, top_k \in TopKs, use_rerank \in BOOLEAN,
       ok \in BOOLEAN, init_ok \in BOOLEAN, outcome \in RerankErrors \cup {"ok"},
       choice \in {"best", "reverse", "beyond"} :
        HybridCall(query, top_k, use_rerank, ok, init_ok, outcome, choice)

SpecHybrid == Init /\ [][NextHybrid]_vars

\* C29: with no credential configured, the first call that asks for
\* reranking turns the reranker off, and every call that asks for it returns
\* the fused list cut to top_k, with no fallback mark and no relevance_score
\* on any chunk; no request is ever sent to the scoring service.
C29_NoCredentialMeansNoReranker ==
    ~cohere_api_key =>
        /\ ~cohere_client /\ ~auth_seen /\ ~transient_seen
        /\ fn.op = "hybrid_search" => ~fn.called
        /\ (fn.op = "hybrid_search" /\ fn.use_rerank /\ ~fn.raised) =>
              /\ ~reranker_enabled
              /\ fn.list = Take(FusedResults(text_index, fn.query, fn.top_k, TRUE),
                                fn.top_k)
              /\ \A i \in 1..Len(fn.list) :
                    ~fn.list[i].rerank_fallback /\ IsNone(fn.list[i].relevance_score)

\* no credential, reranking asked for: the fused list was longer than top_k
\* and its first top_k chunks came back
C29_Witness ==
    /\ ~cohere_api_key
    /\ fn.op = "hybrid_search" /\ fn.use_rerank /\ ~fn.raised
    /\ ~reranker_enabled
    /\ Len(FusedResults(text_index, fn.query, fn.top_k, TRUE)) > fn.top_k
    /\ Len(fn.list) = fn.top_k

\* the chunk ids of the vector list and of the lexical list of a call
CandidateIds(index, query, top_k, use_rerank) ==
    {VectorResults(index, query, top_k, use_rerank)[i].id :
        i \in 1..Len(VectorResults(index, query, top_k, use_rerank))}
    \cup
    {KeywordResults(index, query, top_k, use_rerank)[i].id :
        i \in 1..Len(KeywordResults(index, query, top_k, use_rerank))}

\* C30: whatever the outcome of the reranker (not asked for, not available,
\* an answer, the fallback after a failed request), hybrid_search returns
\* exactly min(top_k, D) chunks, D being the number of distinct chunk ids in
\* the vector list and the lexical list together.
C30_ExactlyTopKOrAll ==
    (fn.op = "hybrid_search" /\ ~fn.raised) =>
        Len(fn.list) = Min(fn.top_k,
                           Cardinality(CandidateIds(text_index, fn.query, fn.top_k,
                                                    fn.use_rerank)))

\* ------------------------------------------------------------------------
\* The lexical ranking (SpecHybrid)
\* ------------------------------------------------------------------------

\* the candidate pool of a call, in the order the index returned it
PoolOf(query) == search_text(text_index, expand_query(query), KeywordPool)

\* the position of a chunk in the candidate pool
PoolPos(query, id) == CHOOSE i \in 1..Len(PoolOf(query)) : PoolOf(query)[i].id = id

\* the lexical score of a chunk for the expanded query of a call
Lexical(query, chunk) == bm25_score(expand_query(query), chunk.content)

\* x is ranked before y: a larger lexical score, or the same score and an
\* earlier place in the pool
RankedBefore(query, x, y) ==
    \/ Lexical(query, x) > Lexical(query, y)
    \/ /\ Lexical(query, x) = Lexical(query, y)
       /\ PoolPos(query, x.id) < PoolPos(query, y.id)

\* C31: the lexical list of a call holds the first fetch_k chunks of the
\* candidate pool ranked by lexical score, largest first, chunks of equal
\* score in the order of the pool; each chunk carries its lexical score.
C31_LexicalRankingStable ==
    (fn.op = "hybrid_search" /\ ~fn.raised) =>
        LET kw == fn.keyword
            pool == PoolOf(fn.query)
        IN  /\ Len(kw) = Min(FetchK(fn.top_k, fn.use_rerank), Len(pool))
            /\ \A i \in 1..Len(kw) :
                  /\ \E j \in 1..Len(pool) : pool[j].id = kw[i].id
                  /\ kw[i].bm25_score = Some(Lexical(fn.query, kw[i]))
            /\ \A i, j \in 1..Len(kw) : i < j => RankedBefore(fn.query, kw[i], kw[j])
            /\ \A i \in 1..Len(kw), j \in 1..Len(pool) :
                  pool[j].id \notin Range(Ids(kw)) => RankedBefore(fn.query, kw[i], pool[j])

\* the pool was cut short between two chunks of equal, positive lexical
\* score: the one that is earlier in the pool is the last of the list
C31_Witness ==
    /\ fn.op = "hybrid_search" /\ ~fn.raised
    /\ fn.keyword # <<>>
    /\ Len(fn.keyword) < Len(PoolOf(fn.query))
    /\ Lexical(fn.query, fn.keyword[Len(fn.keyword)]) > 0
    /\ \E j \in 1..Len(PoolOf(fn.query)) :
          /\ PoolOf(fn.query)[j].id \notin Range(Ids(fn.keyword))
          /\ Lexical(fn.query, PoolOf(fn.query)[j])
               = Lexical(fn.query, fn.keyword[Len(fn.keyword)])

\* ------------------------------------------------------------------------
\* Ties of the fusion (SpecFuse)
\* ------------------------------------------------------------------------

\* the ids of both arguments of a call f, the first list and then the second
Encountered(f) == Ids(f.vector_results) \o Ids(f.keyword_results)

\* where the id was first met
FirstSeen(f, id) ==
    CHOOSE i \in 1..Len(Encountered(f)) :
        /\ Encountered(f)[i] = id
        /\ \A j \in 1..(i - 1) : Encountered(f)[j] # id

\* the fused score of the id
FusedScore(f, id) ==
    RankSum(id, f.vector_results, f.k) + RankSum(id, f.keyword_results, f.k)

FusedBefore(f, x, y) ==
    \/ FusedScore(f, x) > FusedScore(f, y)
    \/ /\ FusedScore(f, x) = FusedScore(f, y)
       /\ FirstSeen(f, x) < FirstSeen(f, y)

\* the one ranking the arguments of f allow: larger fused score first,
\* equal scores in the order of first encounter, cut after top_k
TieOrdered(f) ==
    LET ids == Ids(f.out)
        all == Range(Encountered(f))
    IN  /\ Len(ids) = Min(f.top_k, Cardinality(all))
        /\ Range(ids) \subseteq all
        /\ \A i, j \in 1..Len(ids) : i < j => FusedBefore(f, ids[i], ids[j])
        /\ \A x \in all \ Range(ids) : \A i \in 1..Len(ids) : FusedBefore(f, ids[i], x)

\* C32: the fusion puts candidates of equal fused score in the order in
\* which their ids were first encountered (the first list in its order, then
\* the ids of the second list only), so that the ranking is determined by the
\* arguments alone, and the call leaves both argument lists as they were.
C32_TiesByFirstEncounter ==
    [][fn.op = "fuse_args" =>
          /\ fn'.op = "fuse"
          /\ fn'.vector_results = fn.vector_results
          /\ fn'.keyword_results = fn.keyword_results
          /\ TieOrdered(fn')]_vars

\* two candidates of equal fused score that the second list holds in the
\* other order
C32_Witness ==
    /\ fn.op = "fuse"
    /\ \E i, j \in 1..Len(fn.out) :
          /\ i < j
          /\ FusedScore(fn, fn.out[i].id) = FusedScore(fn, fn.out[j].id)
          /\ \E a, b \in 1..Len(fn.keyword_results) :
                /\ a < b
                /\ fn.keyword_results[a].id = fn.out[j].id
                /\ fn.keyword_results[b].id = fn.out[i].id

\* ------------------------------------------------------------------------
\* A deleted document, the cache and later searches (Spec)
\* ------------------------------------------------------------------------

\* the list holds a chunk of the document
HoldsChunkOf(list, d) == \E i \in 1..Len(list) : list[i].document_id = d

\* C33: once the deletion of a document has completed (the document is no
\* longer in the store), no cache entry holds a chunk of the document and no
\* search that finishes afterwards returns one.
C33_DeletedNeverServed ==
    \A d \in Docs \ documents :
        /\ \A key \in DOMAIN redisStrings :
              ~HoldsChunkOf(Loads(redisStrings[key].val), d)
        /\ \A r \in ReqIds :
              req[r].pc = "done" => ~HoldsChunkOf(Val(req[r].out), d)

\* ------------------------------------------------------------------------
\* Searches that differ in their options only (SpecOptions): one caller, the
\* knowledge base filled, every external service answering, the cache
\* backend up
\* ------------------------------------------------------------------------
OptionInputs ==
    {SearchArgs(q, None, k, Options(h, rr, TRUE)) :
        q \in {QB, Qb}, k \in TopKs, h \in BOOLEAN, rr \in BOOLEAN}

NextOptions ==
    \/ \E in \in OptionInputs : SearchStart(1, in, TRUE, 0)
    \/ SearchText(1, TRUE, TRUE)
    \/ \E order \in RerankOrders(1) : RerankDone(1, "ok", order)
    \/ SearchFinish(1, TRUE, TRUE, TRUE, 0)
    \/ SearchReturn(1)

SpecOptions == InitRace /\ [][NextOptions]_vars

\* what search returns for the call with caching disabled, when the call
\* sends no request to the scoring service (rag.py:204-228, 230-256, 285-287)
Uncached(c) ==
    LET text == IF c.use_hybrid
                THEN Take(FusedResults(text_index, c.query, c.top_k, FALSE), c.top_k)
                ELSE search_text(text_index, c.query, c.top_k)
        found == MapText(text)
                   \o MapImage(search_images(image_index, expand_query(c.query), c.top_k))
    IN  Take(SortDesc(found, Scores(found)), c.top_k)

\* C34: with the index and the answers of the external services fixed, a
\* pure-text search with caching enabled returns what the same call returns
\* with caching disabled, whatever calls came before it, calls with the same
\* query and top_k and other use_hybrid or use_rerank options included.
\* Stated for the calls whose result does not depend on the scoring service.
C34_CacheTransparent ==
    \A r \in ReqIds :
        (/\ req[r].pc = "done"
         /\ Cacheable(req[r])
         /\ ~(req[r].use_hybrid /\ req[r].use_rerank))
        => req[r].out = Some(Uncached(req[r]))

\* ------------------------------------------------------------------------
\* The order of the text chunks through the final merge (SpecOptions)
\* ------------------------------------------------------------------------

\* where the list holds the id
PlaceOf(list, id) == CHOOSE i \in 1..Len(list) : list[i].id = id

\* the text chunks of `after` stand in the order they have in `before`
TextOrderKept(before, after) ==
    \A i, j \in 1..Len(after) :
        (/\ i < j
         /\ after[i].doc_type = TextType /\ after[j].doc_type = TextType
         /\ after[i].id \in Range(Ids(before)) /\ after[j].id \in Range(Ids(before)))
        => PlaceOf(before, after[i].id) < PlaceOf(before, after[j].id)

\* C35: the final merge of search keeps the relative order of the text
\* chunks hybrid_search returned; in particular, after a rerank call that
\* succeeded the text chunks of the returned list stand in the order the
\* scoring service gave.
C35_MergeKeepsTextOrder ==
    [][\A r \in ReqIds :
          (/\ req[r].pc = "image" /\ req'[r].pc = "done"
           /\ req[r].query # <<>> /\ req[r].use_hybrid)
          => TextOrderKept(req[r].results, Val(req'[r].out))]_vars

\* ------------------------------------------------------------------------
\* The hit and miss counters (SpecCache)
\* ------------------------------------------------------------------------

\* the step is a call of get
GetStep == calls' # calls /\ ret'.op = "get"

CountedHit ==
    /\ cache_stats'.hits = cache_stats.hits + 1
    /\ cache_stats'.misses = cache_stats.misses

CountedMiss ==
    /\ cache_stats'.hits = cache_stats.hits
    /\ cache_stats'.misses = cache_stats.misses + 1

\* C36: a call of get that obtains a backend client adds one to exactly one
\* of the counters hits and misses and returns a list if and only if it
\* added to hits, also when a backend command or the parsing fails during
\* the call; a call made while the cache is disabled changes neither counter.
C36_OneCounterPerGet ==
    [][GetStep =>
          /\ redis_client' => /\ CountedHit \/ CountedMiss
                              /\ ret'.ok <=> CountedHit
          /\ ~cache_enabled => UNCHANGED cache_stats]_vars

\* ------------------------------------------------------------------------
\* The cache-enabled flag (SpecCache)
\* ------------------------------------------------------------------------

\* C37: once the connection test of the client initialisation has failed,
\* the cache-enabled flag stays false and no client is kept; every later get
\* returns None, every put False, every invalidate 0, and none of them
\* changes the backend or the counters, also when the backend can be reached
\* again.
C37_CacheFlagOneWay ==
    [][~cache_enabled =>
          /\ ~cache_enabled'
          /\ ~redis_client'
          /\ calls' # calls =>
                /\ UNCHANGED <<redisStrings, redisHashes, cache_stats>>
                /\ ret'.op = "get" => IsNone(ret'.val) /\ ~ret'.ok
                /\ ret'.op = "put" => ~ret'.ok
                /\ ret'.op \in {"invalidate", "clear_all"} => ret'.n = 0]_vars

\* the first call failed to connect; the second call, a put, was made with
\* the flag false and returned False
C37_Witness ==
    /\ ~cache_enabled
    /\ ~redis_client
    /\ calls = MaxCacheCalls
    /\ ret.op = "put"
    /\ ~ret.ok
    /\ BackendKeys = {}

\* ------------------------------------------------------------------------
\* The backend shared with the task manager (SpecShared): task_manager.py
\* keeps its records in the backend of settings.redis_url, the one the cache
\* service uses
\* ------------------------------------------------------------------------
TASK_TTL == 86400

\* f"{TASK_PREFIX}{task_id}" and ACTIVE_TASKS_KEY
TaskKey(task_id) == [ns |-> "task", hash |-> task_id, top_k |-> 0, meta |-> FALSE]
ACTIVE_TASKS_KEY == [ns |-> "tasks", hash |-> 0, top_k |-> 0, meta |-> FALSE]

\* the ids uuid4 can give
TaskIds == {1, 2}

\* task.model_dump_json()
TaskJson(task_id, document_id) ==
    <<Punct("{"), NumTok(task_id), StrTok(document_id), Punct("}")>>

\* the members of the set under ACTIVE_TASKS_KEY, in the order they were added
ActiveTasks(strs) ==
    IF ACTIVE_TASKS_KEY \in DOMAIN strs THEN strs[ACTIVE_TASKS_KEY].val ELSE <<>>

\* create_task: SET key json EX TASK_TTL, then SADD the id.  The task
\* manager connects on every call (task_manager.py:28-41); without a
\* connection nothing is stored
TaskCreate(task_id, document_id, up) ==
    /\ TaskKey(task_id) \notin DOMAIN redisStrings
    /\ IF up
       THEN redisStrings' =
              Put(Put(redisStrings, TaskKey(task_id),
                      [val |-> TaskJson(task_id, document_id),
                       exp |-> Some(now + TASK_TTL)]),
                  ACTIVE_TASKS_KEY,
                  [val |-> Append(ActiveTasks(redisStrings), task_id), exp |-> None])
       ELSE UNCHANGED redisStrings
    /\ UNCHANGED <<keyVars, fn, now, redisHashes, redis_client, cache_enabled,
                   cache_stats, rerankVars, storeVars, req, ret, lastPut, calls, faults>>

NextShared ==
    \/ \E task_id \in TaskIds, doc \in Docs, up \in BOOLEAN : TaskCreate(task_id, doc, up)
    \/ \E a \in CacheArgs, results \in SampleLists, up \in UpChoices :
          CachePut(a[1], a[2], results, 0, up, 0)
    \/ \E doc \in DocArgs, up \in UpChoices, fail \in 0..1, done \in SUBSET BackendKeys :
          CacheInvalidate("", doc, up, fail, IF fail = 0 THEN {} ELSE done)
    \/ \E up \in UpChoices, fail \in 0..1, done \in SUBSET BackendKeys :
          CacheClearAll(up, fail, IF fail = 0 THEN {} ELSE done)

SpecShared == InitCache /\ [][NextShared]_vars

\* the step is a call of invalidate with a document id or with no argument,
\* or a call of clear_all_cache
InvalidationStep ==
    /\ calls' # calls
    /\ \/ ret'.op = "invalidate" /\ ret'.pattern = ""
       \/ ret'.op = "clear_all"

\* C38: an invalidation with a document id, an invalidation with no
\* argument and clear_all_cache delete keys of the prefix "query:" only:
\* every other key of the shared backend, the task records and the set of
\* active tasks among them, is left with its value.
C38_InvalidationKeepsOtherKeys ==
    [][InvalidationStep =>
          \A x \in DOMAIN redisStrings :
              x.ns # "query" => /\ x \in DOMAIN redisStrings'
                                /\ redisStrings'[x] = redisStrings[x]]_vars

====
